---- MODULE Spec2Model ----
(***************************************************************************)
(* The session manager of daemon/core/emulator/session.py as a state       *)
(* machine.  Every public operation of Session is run by a thread that     *)
(* walks through the operation's steps; a step is one block of the code    *)
(* that runs without interference (a block under _nodes_lock, one call on  *)
(* a node, one assignment of session state).  Spec runs one thread, one    *)
(* operation after the other; SpecConc runs two threads, one operation     *)
(* each, interleaved step by step.                                         *)
(***************************************************************************)
EXTENDS Integers, FiniteSets, Sequences, TLC

\* ------------------------------------------------------------------ bounds
\* the node ids of a run without links are 1..MaxId (and the control net ids)
MaxId == 2
\* the node ids of a run with links are 1..MaxLinkId
MaxLinkId == 3
\* interface indexes a caller may name are 0..MaxIf-1
MaxIf == 1
\* control net indexes a caller names or configures are 0..MaxCtrl
MaxCtrl == 0
\* node objects that may carry the same id at the same time are 0..MaxGen
MaxGen == 3
\* the pseudo-interfaces between networks that a run makes
MaxNetLinks == 1

\* the hook scripts, and the callbacks, one state may have
MaxHooks == 2
\* the handlers on one bus
MaxSinks == 2
\* the items a caller publishes are 1..MaxItem
MaxItem == 2
MaxTime == 3

\* --------------------------------------------------------------- constants
CTRL_NET_ID == 9001
\* the last control net index: data_collect removes the nets 0..3
LastCtrlIndex == 3
\* CtrlNet.CTRLIF_IDX_BASE, the interface index of a node's ctrl0 interface
CTRLIF_IDX_BASE == 99

\* EventTypes, the lifecycle states
NONE == 0
DEFINITION_STATE == 1
CONFIGURATION_STATE == 2
INSTANTIATION_STATE == 3
RUNTIME_STATE == 4
DATACOLLECT_STATE == 5
SHUTDOWN_STATE == 6

\* EventTypes.INSTANTIATION_COMPLETE, an event that is no lifecycle state
INSTANTIATION_COMPLETE == 15
\* ExceptionLevels.ERROR
ERROR == 2

States == NONE..SHUTDOWN_STATE

Threads == {1, 2}

CtrlIndexes == 0..LastCtrlIndex
CtrlIds == {CTRL_NET_ID + i : i \in CtrlIndexes}
IfIndexes == 0..(MaxIf - 1)
\* interface_one_id = None: the caller of update_link names no interface
NoIf == 0 - 1

\* the node classes of NODES that the model builds
HostClasses == {"CoreNode"}
NetClasses == {"SwitchNode", "WlanNode", "PtpNet", "CtrlNet", "GreTapBridge", "TunnelNode"}
\* LinkOptions.type: the two members of LinkTypes, and the bare value of one
LinkTypes == {"WIRED", "WIRELESS"}

\* the hook scripts callers set: one exits with 0, one with another status
Scripts == {"ok.sh", "fail.sh"}
FailingScripts == {"fail.sh"}
\* the callbacks callers add as state hooks: one returns, one raises
Callbacks == {"hook", "hook_raises"}
RaisingCallbacks == {"hook_raises"}
\* the handler lists of a session: event_handlers, exception_handlers, ...
Buses == {"event", "exception", "node", "link", "file", "config"}
\* a handler that raises when it is called
RaisingSinks == {"sink_raises"}

\* a node object is named by its id and a tag that tells objects of one id apart
None == <<0, 0>>

VARIABLES
    state,      \* Session.state
    running,    \* Session.event_loop is running
    nodes,      \* Session.nodes: id -> node object
    idgen,      \* Session.node_id_gen.id
    prefixes,   \* the indexes i whose option controlnet<i> is set
    objs,       \* the node objects: object -> [cls, shut, owner, count]
    ifs,        \* the interfaces: [node, idx, net], net = None when detached
    netlinks,   \* the pseudo-interfaces made by linknet: <<net_one, net_two>>
    pc,         \* each thread's position
    op,         \* each thread's current (or last) operation and its arguments
    loc,        \* each thread's local variables
    shutLog,    \* per thread: how often its operation called shutdown(), per object
    hooks,      \* Session._hooks: state -> the hook scripts, in the order they were set
    stateHooks, \* Session._state_hooks: state -> the callbacks, in the order they were added
    log,        \* per thread: what its operation did that others observe, in order
    world       \* what the callers of this run draw from: [ids, classes]

vars == <<state, running, nodes, idgen, prefixes, objs, ifs, netlinks, pc, op, loc, shutLog,
          hooks, stateHooks, log, world>>

session == <<state, running, nodes, idgen, prefixes, objs, ifs, netlinks, hooks, stateHooks>>

\* ----------------------------------------------------------------- helpers
IsNet(o) == objs[o].cls \in NetClasses
IsHost(o) == objs[o].cls \in HostClasses

\* a function without the key k
Without(f, k) == [x \in DOMAIN f \ {k} |-> f[x]]

\* a function with the key k set to v
With(f, k, v) == [x \in DOMAIN f \cup {k} |-> IF x = k THEN v ELSE f[x]]

Min(S) == CHOOSE x \in S : \A y \in S : x <= y

\* the object a constructor call cls(session, _id=k) returns
NewRef(k) == <<k, Min({g \in 0..MaxGen : <<k, g>> \notin DOMAIN objs})>>

NewObj(c) == [cls |-> c, shut |-> 0, owner |-> 0, count |-> 0]

\* node.shutdown(): the interfaces of the node are removed, and the interfaces
\* attached to it (when it is a network) are detached
IfsAfterShutdown(fs, o) ==
    {IF f.net = o THEN [f EXCEPT !.net = None] ELSE f : f \in {g \in fs : g.node # o}}

\* node.shutdown(): the links to other networks go with the network
LinksAfterShutdown(ls, o) == {l \in ls : l[1] # o /\ l[2] # o}

ObjsAfterShutdown(os, o) == [os EXCEPT ![o].shut = @ + 1]

LogShutdown(sl, o) ==
    IF o \in DOMAIN sl THEN [sl EXCEPT ![o] = @ + 1] ELSE With(sl, o, 1)

\* the classes an object of the class c is an instance of: TunnelNode is
\* derived from GreTapBridge
Bases(c) == IF c = "TunnelNode" THEN {"TunnelNode", "GreTapBridge"} ELSE {c}

\* isinstance(node, classes) for a node of the class c
IsInstance(c, classes) == Bases(c) \cap classes # {}

\* get_node_count() that leaves out every GreTapBridge, tunnel nodes too
MutNodeCount(ns, os) ==
    Cardinality({k \in DOMAIN ns :
                    LET c == os[ns[k]].cls
                        is_p2p_ctrlnet == IsInstance(c, {"PtpNet", "CtrlNet"})
                        is_tap == IsInstance(c, {"GreTapBridge"})
                    IN ~ (is_p2p_ctrlnet \/ is_tap)})

\* Session.get_node_count over a registry ns
NodeCount(ns, os) ==
    Cardinality({k \in DOMAIN ns :
                    LET c == os[ns[k]].cls
                        is_p2p_ctrlnet == IsInstance(c, {"PtpNet", "CtrlNet"})
                        is_tap == IsInstance(c, {"GreTapBridge"}) /\ ~ IsInstance(c, {"TunnelNode"})
                    IN ~ (is_p2p_ctrlnet \/ is_tap)})

\* Session.check_shutdown: the state it leaves, from state st
MutCheckShutdown(ns, os, st) == IF NodeCount(ns, os) = 0 THEN NONE ELSE st

CheckShutdown(ns, os, st) == IF NodeCount(ns, os) = 0 THEN SHUTDOWN_STATE ELSE st

\* ------------------------------------------------- hooks and handlers
\* one thing an operation did: what, to or by whom, and with which value
Entry(what, who, arg) == [what |-> what, who |-> who, arg |-> arg]

\* the operation was left by an exception of a handler
Raised(lg) == Len(lg) > 0 /\ lg[Len(lg)].what = "raise"

\* lg, and then more unless an exception has ended lg
Then(lg, more) == IF Raised(lg) THEN lg ELSE lg \o more

\* for handler in handlers: handler(item): the handlers are called in the order
\* of the list; the exception of a handler ends the loop and the call
CallAll(what, sinks, item) ==
    LET bad == {i \in 1..Len(sinks) : sinks[i] \in RaisingSinks}
        n == IF bad = {} THEN Len(sinks) ELSE Min(bad)
    IN [i \in 1..n |-> Entry(what, sinks[i], item)]
           \o (IF bad = {} THEN <<>> ELSE <<Entry("raise", sinks[n], 0)>>)

\* Session.broadcast_event, broadcast_exception, broadcast_node, broadcast_file,
\* broadcast_config, broadcast_link
Broadcast(bus, item) == CallAll(bus, world.sinks[bus], item)

\* Session.run_hook: the script is run by /bin/sh; a script that fails is logged
RunHook(h) == <<Entry("script", h, IF h \in FailingScripts THEN 1 ELSE 0)>>

\* Session.run_hooks(state): the hook scripts of the state, in their order
RECURSIVE RunHooks(_)
RunHooks(hs) == IF hs = <<>> THEN <<>> ELSE RunHook(Head(hs)) \o RunHooks(Tail(hs))

\* Session.run_state_hooks(state): the callbacks of the state, in their order;
\* the exception of a callback is caught and reported by Session.exception
\* run_state_hooks() without the try/except around the call of a hook
RECURSIVE MutRunStateHooks(_)
MutRunStateHooks(cs) ==
    IF cs = <<>>
    THEN <<>>
    ELSE Then(<<Entry("callback", Head(cs), 0)>>
                  \o (IF Head(cs) \in RaisingCallbacks
                      THEN <<Entry("raise", Head(cs), 0)>>
                      ELSE <<>>),
              MutRunStateHooks(Tail(cs)))

RECURSIVE RunStateHooks(_)
RunStateHooks(cs) ==
    IF cs = <<>>
    THEN <<>>
    ELSE Then(<<Entry("callback", Head(cs), 0)>>
                  \o (IF Head(cs) \in RaisingCallbacks THEN Broadcast("exception", ERROR)
                      ELSE <<>>),
              RunStateHooks(Tail(cs)))

\* EventTypes(value).name
StateName(s) ==
    CASE s = NONE -> "NONE"
      [] s = DEFINITION_STATE -> "DEFINITION_STATE"
      [] s = CONFIGURATION_STATE -> "CONFIGURATION_STATE"
      [] s = INSTANTIATION_STATE -> "INSTANTIATION_STATE"
      [] s = RUNTIME_STATE -> "RUNTIME_STATE"
      [] s = DATACOLLECT_STATE -> "DATACOLLECT_STATE"
      [] s = SHUTDOWN_STATE -> "SHUTDOWN_STATE"

\* Session.set_state(s, send_event) in the state st: what it does, in order
\* set_state() as if the callback hooks ran before the script hooks
MutSetStateOrder(st, s, send) ==
    IF st = s
    THEN <<>>
    ELSE Then(Then(<<Entry("state", "", s), Entry("state_time", "", s), Entry("file", StateName(s), s)>>
                       \o RunStateHooks(stateHooks[s]),
                   RunHooks(hooks[s])),
              IF send THEN Broadcast("event", s) ELSE <<>>)

\* set_state() without the early return for a session already in the state
MutSetStateAgain(st, s, send) ==
    Then(Then(<<Entry("state", "", s), Entry("state_time", "", s), Entry("file", StateName(s), s)>>
                  \o RunHooks(hooks[s]),
              RunStateHooks(stateHooks[s])),
         IF send THEN Broadcast("event", s) ELSE <<>>)

SetStateLog(st, s, send) ==
    IF st = s
    THEN <<>>
    ELSE Then(Then(<<Entry("state", "", s), Entry("state_time", "", s), Entry("file", StateName(s), s)>>
                       \o RunHooks(hooks[s]),
                   RunStateHooks(stateHooks[s])),
              IF send THEN Broadcast("event", s) ELSE <<>>)

\* the handlers and options a session runs with, when it has none
World(ids, classes) ==
    [ids |-> ids, classes |-> classes, sinks |-> [b \in Buses |-> <<>>],
     handlers |-> <<>>, preserve |-> FALSE, hookStates |-> {}, configFails |-> FALSE]

\* the local variables of a thread that runs no operation
NoLoc ==
    [new |-> None, n1 |-> None, n2 |-> None, net1 |-> None, net2 |-> None,
     did |-> 0, i |-> 0, rm |-> FALSE, cr |-> FALSE, x1 |-> 0, x2 |-> 0,
     k |-> "ret", kx |-> "ret", k2 |-> "ret", dk |-> "ret",
     s0 |-> 0, n |-> 0, swaps |-> 0, res |-> "none", start |-> FALSE, linked |-> {}, configured |-> {}]

NoOp ==
    [name |-> "none", a |-> 0, b |-> 0, i1 |-> 0, i2 |-> 0, cls |-> "", type |-> "",
     flag |-> FALSE]

\* one thread runs alone and starts operation after operation
Sequential == \E u \in Threads : pc[u] = "off"

\* thread t starts the operation o, whose first step does what lg lists
BeginWith(t, o, label, l, lg) ==
    /\ pc[t] = "idle"
    /\ pc' = [pc EXCEPT ![t] = label]
    /\ op' = [op EXCEPT ![t] = o]
    /\ loc' = [loc EXCEPT ![t] = [l EXCEPT !.s0 = state]]
    /\ shutLog' = [shutLog EXCEPT ![t] = <<>>]
    /\ log' = [log EXCEPT ![t] = lg]
    /\ UNCHANGED world

\* thread t starts the operation o
Begin(t, o, label, l) == BeginWith(t, o, label, l, <<>>)

Goto(t, label) == pc' = [pc EXCEPT ![t] = label]

\* the objects something still refers to
Referenced(ls) ==
    {nodes[k] : k \in DOMAIN nodes}
        \cup {f.node : f \in ifs}
        \cup UNION {{ls[u].new, ls[u].n1, ls[u].n2, ls[u].net1, ls[u].net2} : u \in Threads}

\* the operation of thread t has returned (or raised) and the thread goes on:
\* alone, it forgets the operation, and the objects nothing refers to any more go
Return(t) ==
    /\ pc[t] = "ret"
    /\ IF Sequential
       THEN /\ pc' = [pc EXCEPT ![t] = "idle"]
            /\ loc' = [loc EXCEPT ![t] = NoLoc]
            /\ op' = [op EXCEPT ![t] = NoOp]
            /\ shutLog' = [shutLog EXCEPT ![t] = <<>>]
            /\ log' = [log EXCEPT ![t] = <<>>]
            /\ objs' = [o \in DOMAIN objs \cap Referenced(loc') |-> objs[o]]
       ELSE /\ pc' = [pc EXCEPT ![t] = "done"]
            /\ UNCHANGED <<loc, op, shutLog, log, objs>>
    /\ UNCHANGED <<state, running, nodes, idgen, prefixes, ifs, netlinks, hooks, stateHooks, world>>

\* ------------------------------------------------------------- set_state
\* Session.set_state(state): a no-op in the state itself
SetState(t, s) ==
    \E send \in BOOLEAN :
        LET lg == SetStateLog(state, s, send) IN
        /\ BeginWith(t, [NoOp EXCEPT !.name = "set_state", !.a = s, !.flag = send], "ret",
                     [NoLoc EXCEPT !.res = IF Raised(lg) THEN "raised" ELSE "ok"], lg)
        /\ state' = s
        /\ UNCHANGED <<running, nodes, idgen, prefixes, objs, ifs, netlinks, hooks, stateHooks>>

\* Session.set_state(state, send_event), statement by statement, for the runs in
\* which another thread changes the state in between: the test of the state
SetStateCall(t, s, send) ==
    /\ BeginWith(t, [NoOp EXCEPT !.name = "set_state", !.a = s, !.flag = send],
                 IF state = s THEN "ret" ELSE "ss_store", [NoLoc EXCEPT !.res = "ok"], <<>>)
    /\ UNCHANGED session

\* set_state: self.state = state_value; self._state_time = time.monotonic()
SetStateStore(t) ==
    /\ pc[t] = "ss_store"
    /\ state' = op[t].a
    /\ log' = [log EXCEPT ![t] = @ \o <<Entry("state", "", op[t].a),
                                        Entry("state_time", "", op[t].a)>>]
    /\ Goto(t, "ss_write")
    /\ UNCHANGED <<running, nodes, idgen, prefixes, objs, ifs, netlinks, op, loc, shutLog, hooks,
                   stateHooks, world>>

\* Session.write_state(state): the line of the state file has the number of the
\* argument and the name of the state the session is in when it is written
WriteState(s, st) == <<Entry("file", StateName(st), s)>>

\* set_state: self.write_state(state_value)
SetStateWrite(t) ==
    /\ pc[t] = "ss_write"
    /\ log' = [log EXCEPT ![t] = @ \o WriteState(op[t].a, state)]
    /\ Goto(t, "ss_hooks")
    /\ UNCHANGED <<session, op, loc, shutLog, world>>

\* set_state: run_hooks, run_state_hooks, and the event when send_event is set
SetStateHooks(t) ==
    LET s == op[t].a
        lg == Then(Then(log[t] \o RunHooks(hooks[s]), RunStateHooks(stateHooks[s])),
                   IF op[t].flag THEN Broadcast("event", s) ELSE <<>>)
    IN
    /\ pc[t] = "ss_hooks"
    /\ log' = [log EXCEPT ![t] = lg]
    /\ loc' = [loc EXCEPT ![t].res = IF Raised(lg) THEN "raised" ELSE "ok"]
    /\ Goto(t, "ret")
    /\ UNCHANGED <<session, op, shutLog, world>>

\* --------------------------------------------------- hooks, broadcasts
\* Session.add_hook(state, file_name, source_name, data), by set_hook: the hook
\* script is appended to the scripts of the state, and run when the session is
\* in that state
AddHook(t, s, h) ==
    /\ Len(hooks[s]) < MaxHooks
    /\ BeginWith(t, [NoOp EXCEPT !.name = "add_hook", !.a = s, !.cls = h], "ret",
                 [NoLoc EXCEPT !.res = "ok"], IF state = s THEN RunHook(h) ELSE <<>>)
    /\ hooks' = [hooks EXCEPT ![s] = Append(@, h)]
    /\ UNCHANGED <<state, running, nodes, idgen, prefixes, objs, ifs, netlinks, stateHooks>>

\* Session.add_state_hook(state, hook): a callback the state has already is
\* refused; a new one is appended, and called when the session is in that state
\* list.remove(x): the list without the first x
Remove(q, x) ==
    LET i == Min({j \in 1..Len(q) : q[j] = x})
    IN SubSeq(q, 1, i - 1) \o SubSeq(q, i + 1, Len(q))

\* add_state_hook() without the test for a callback the state already has
MutAddStateHookTwice(t, s, cb) ==
    LET lg == IF state # s THEN <<>>
              ELSE <<Entry("callback", cb, 0)>>
                       \o (IF cb \in RaisingCallbacks THEN <<Entry("raise", cb, 0)>> ELSE <<>>)
    IN
    /\ Len(stateHooks[s]) < MaxHooks
    /\ BeginWith(t, [NoOp EXCEPT !.name = "add_state_hook", !.a = s, !.cls = cb], "ret",
                 [NoLoc EXCEPT !.res = IF Raised(lg) THEN "raised" ELSE "ok"], lg)
    /\ stateHooks' = [stateHooks EXCEPT ![s] = Append(@, cb)]
    /\ UNCHANGED <<state, running, nodes, idgen, prefixes, objs, ifs, netlinks, hooks>>

\* add_state_hook() that calls the new callback in whatever state the session is
MutAddStateHook(t, s, cb) ==
    LET known == \E i \in 1..Len(stateHooks[s]) : stateHooks[s][i] = cb
        lg == <<Entry("callback", cb, 0)>>
                  \o (IF cb \in RaisingCallbacks THEN <<Entry("raise", cb, 0)>> ELSE <<>>)
    IN
    /\ known \/ Len(stateHooks[s]) < MaxHooks
    /\ IF known
       THEN /\ BeginWith(t, [NoOp EXCEPT !.name = "add_state_hook", !.a = s, !.cls = cb], "ret",
                         [NoLoc EXCEPT !.res = "duplicate"], <<>>)
            /\ UNCHANGED stateHooks
       ELSE /\ BeginWith(t, [NoOp EXCEPT !.name = "add_state_hook", !.a = s, !.cls = cb], "ret",
                         [NoLoc EXCEPT !.res = IF Raised(lg) THEN "raised" ELSE "ok"], lg)
            /\ stateHooks' = [stateHooks EXCEPT ![s] = Append(@, cb)]
    /\ UNCHANGED <<state, running, nodes, idgen, prefixes, objs, ifs, netlinks, hooks>>

AddStateHook(t, s, cb) ==
    LET known == \E i \in 1..Len(stateHooks[s]) : stateHooks[s][i] = cb
        lg == IF state # s THEN <<>>
              ELSE <<Entry("callback", cb, 0)>>
                       \o (IF cb \in RaisingCallbacks THEN <<Entry("raise", cb, 0)>> ELSE <<>>)
    IN
    /\ known \/ Len(stateHooks[s]) < MaxHooks
    /\ IF known
       THEN /\ BeginWith(t, [NoOp EXCEPT !.name = "add_state_hook", !.a = s, !.cls = cb], "ret",
                         [NoLoc EXCEPT !.res = "duplicate"], <<>>)
            /\ UNCHANGED stateHooks
       ELSE /\ BeginWith(t, [NoOp EXCEPT !.name = "add_state_hook", !.a = s, !.cls = cb], "ret",
                         [NoLoc EXCEPT !.res = IF Raised(lg) THEN "raised" ELSE "ok"], lg)
            /\ stateHooks' = [stateHooks EXCEPT ![s] = Append(@, cb)]
    /\ UNCHANGED <<state, running, nodes, idgen, prefixes, objs, ifs, netlinks, hooks>>

\* Session.del_state_hook(state, hook): the first entry of the callback goes;
\* list.remove raises ValueError for a callback the state does not have
DelStateHook(t, s, cb) ==
    LET known == \E i \in 1..Len(stateHooks[s]) : stateHooks[s][i] = cb IN
    /\ BeginWith(t, [NoOp EXCEPT !.name = "del_state_hook", !.a = s, !.cls = cb], "ret",
                 [NoLoc EXCEPT !.res = IF known THEN "ok" ELSE "not_found"], <<>>)
    /\ stateHooks' = [stateHooks EXCEPT ![s] = IF known THEN Remove(@, cb) ELSE @]
    /\ UNCHANGED <<state, running, nodes, idgen, prefixes, objs, ifs, netlinks, hooks>>

\* Session.runtime(): the time spent in the runtime state, zero in another
\* state; elapsed is time.monotonic() - _state_time
Runtime(st, elapsed) == IF st = RUNTIME_STATE THEN elapsed ELSE 0

\* add_event() that posts the event time as it is given, whatever the run time
MutAddEventLog(event_time, current_time) ==
    IF current_time > 0 /\ event_time <= current_time
    THEN <<>>
    ELSE <<Entry("add_event", "run_event", event_time)>>

\* Session.add_event(event_time, ...): what it posts to the event loop
AddEventLog(event_time, current_time) ==
    IF current_time > 0 /\ event_time <= current_time
    THEN <<>>
    ELSE <<Entry("add_event", "run_event",
                 IF current_time > 0 THEN event_time - current_time ELSE event_time)>>

\* Session.add_event(event_time, node, name, data), called when the state was
\* set elapsed ago
AddEvent(t, event_time, elapsed) ==
    /\ BeginWith(t, [NoOp EXCEPT !.name = "add_event", !.a = event_time, !.b = elapsed], "ret",
                 [NoLoc EXCEPT !.res = "ok"], AddEventLog(event_time, Runtime(state, elapsed)))
    /\ UNCHANGED session

\* Session.broadcast_event(item), broadcast_exception(item), broadcast_node(item),
\* broadcast_link(item), broadcast_file(item) or broadcast_config(item)
Publish(t, bus, item) ==
    LET lg == Broadcast(bus, item) IN
    /\ BeginWith(t, [NoOp EXCEPT !.name = "broadcast", !.cls = bus, !.a = item], "ret",
                 [NoLoc EXCEPT !.res = IF Raised(lg) THEN "raised" ELSE "ok"], lg)
    /\ UNCHANGED session

\* ------------------------------------------------------------ create_node
\* Session.create_node, after the constructor: under _nodes_lock the new node
\* is registered, or shut down and refused when its id is taken
MutCreateNodeInsert(t) ==
    LET r == loc[t].new IN
    /\ pc[t] = "cn_insert"
    /\ nodes' = With(nodes, r[1], r)
    /\ Goto(t, loc[t].k)
    /\ UNCHANGED <<state, running, idgen, prefixes, objs, ifs, netlinks, op, loc, shutLog, hooks,
                   stateHooks, log, world>>

CreateNodeInsert(t) ==
    LET r == loc[t].new IN
    /\ pc[t] = "cn_insert"
    /\ IF r[1] \in DOMAIN nodes
       THEN /\ objs' = ObjsAfterShutdown(objs, r)
            /\ shutLog' = [shutLog EXCEPT ![t] = LogShutdown(@, r)]
            /\ loc' = [loc EXCEPT ![t].res = "duplicate"]
            /\ Goto(t, loc[t].kx)
            /\ UNCHANGED nodes
       ELSE /\ nodes' = With(nodes, r[1], r)
            /\ Goto(t, loc[t].k)
            /\ UNCHANGED <<objs, shutLog, loc>>
    /\ UNCHANGED <<state, running, idgen, prefixes, ifs, netlinks, op, hooks, stateHooks, log,
                   world>>

\* --------------------------------------------------------------- add_node
\* the ids node_id_gen.next() may return next: the first one above the counter
\* that is not registered
\* (the counter of a session this small stays far below CTRL_NET_ID)
GenIds == {k \in world.ids : k > idgen /\ k \notin CtrlIds /\ k \notin DOMAIN nodes}

NextGenId == Min(GenIds)

\* Session.add_node(_type, _id): the id is generated when none is given, and
\* the node is constructed
AddNode(t, c, id) ==
    /\ pc[t] = "idle"
    /\ id = 0 => GenIds # {}
    /\ LET k == IF id = 0 THEN NextGenId ELSE id
           r == NewRef(k)
       IN /\ Begin(t, [NoOp EXCEPT !.name = "add_node", !.a = id, !.cls = c], "cn_insert",
                   [NoLoc EXCEPT !.new = r, !.k = "an_boot"])
          /\ idgen' = IF id = 0 THEN k ELSE idgen
          /\ objs' = With(objs, r, NewObj(c))
    /\ UNCHANGED <<state, running, nodes, prefixes, ifs, netlinks, hooks, stateHooks>>

\* Session.get_node_count(): the registry is counted under _nodes_lock
GetNodeCount(t) ==
    /\ Begin(t, [NoOp EXCEPT !.name = "get_node_count"], "ret",
             [NoLoc EXCEPT !.n = NodeCount(nodes, objs), !.res = "ok"])
    /\ UNCHANGED session

\* ------------------------------------------------------------ delete_node
\* Session.delete_node(_id)
DeleteNode(t, id) ==
    /\ Begin(t, [NoOp EXCEPT !.name = "delete_node", !.a = id], "dn_pop",
             [NoLoc EXCEPT !.did = id])
    /\ UNCHANGED session

\* delete_node, were it to look the node up and leave it in the registry
MutDeleteNodePop(t) ==
    /\ pc[t] = "dn_pop"
    /\ IF loc[t].did \in DOMAIN nodes
       THEN /\ loc' = [loc EXCEPT ![t].new = nodes[loc[t].did], ![t].res = "deleted"]
            /\ Goto(t, "dn_shutdown")
       ELSE /\ loc' = [loc EXCEPT ![t].res = "absent"]
            /\ Goto(t, loc[t].dk)
    /\ UNCHANGED <<session, op, shutLog, log, world>>

\* delete_node: under _nodes_lock the node is popped
DeleteNodePop(t) ==
    /\ pc[t] = "dn_pop"
    /\ IF loc[t].did \in DOMAIN nodes
       THEN /\ nodes' = Without(nodes, loc[t].did)
            /\ loc' = [loc EXCEPT ![t].new = nodes[loc[t].did], ![t].res = "deleted"]
            /\ Goto(t, "dn_shutdown")
       ELSE /\ loc' = [loc EXCEPT ![t].res = "absent"]
            /\ Goto(t, loc[t].dk)
            /\ UNCHANGED nodes
    /\ UNCHANGED <<state, running, idgen, prefixes, objs, ifs, netlinks, op, shutLog, hooks,
                   stateHooks, log, world>>

\* delete_node: node.shutdown(), outside the lock
MutDeleteNodeShutdown(t) ==
    /\ pc[t] = "dn_shutdown"
    /\ Goto(t, "dn_check")
    /\ UNCHANGED <<session, op, loc, shutLog, log, world>>

DeleteNodeShutdown(t) ==
    LET o == loc[t].new IN
    /\ pc[t] = "dn_shutdown"
    /\ objs' = ObjsAfterShutdown(objs, o)
    /\ ifs' = IfsAfterShutdown(ifs, o)
    /\ netlinks' = LinksAfterShutdown(netlinks, o)
    /\ shutLog' = [shutLog EXCEPT ![t] = LogShutdown(@, o)]
    /\ Goto(t, "dn_check")
    /\ UNCHANGED <<state, running, nodes, idgen, prefixes, op, loc, hooks, stateHooks, log, world>>

\* delete_node: check_shutdown()
DeleteNodeCheck(t) ==
    LET st == CheckShutdown(nodes, objs, state)
        lg == SetStateLog(state, st, FALSE)
    IN
    /\ pc[t] = "dn_check"
    /\ state' = st
    /\ log' = [log EXCEPT ![t] = @ \o lg]
    /\ IF Raised(lg)
       THEN /\ loc' = [loc EXCEPT ![t].new = None, ![t].res = "raised"]
            /\ Goto(t, IF op[t].name \in {"add_link", "delete_link", "update_link"}
                       THEN "lk_unlock" ELSE "ret")
       ELSE /\ loc' = [loc EXCEPT ![t].new = None]
            /\ Goto(t, loc[t].dk)
    /\ UNCHANGED <<running, nodes, idgen, prefixes, objs, ifs, netlinks, op, shutLog, hooks,
                   stateHooks, world>>

\* ------------------------------------------- add_remove_control_net
\* Session.add_remove_control_net(net_index=i, remove=rm, conf_required=cr):
\* the control net, when there is one now, ends in loc.net1
\* add_remove_control_net as if it built a bridge whether or not one is registered
MutControlNet(t) ==
    LET l == loc[t]
        id == CTRL_NET_ID + l.i
        r == NewRef(id)
    IN
    /\ pc[t] = "arcn"
    /\ IF l.i \notin prefixes /\ l.cr
       THEN /\ loc' = [loc EXCEPT ![t].net1 = None]
            /\ Goto(t, l.k2)
            /\ UNCHANGED objs
       ELSE IF l.rm
       THEN IF id \in DOMAIN nodes
            THEN /\ loc' = [loc EXCEPT ![t].net1 = None, ![t].did = id, ![t].dk = l.k2]
                 /\ Goto(t, "dn_pop")
                 /\ UNCHANGED objs
            ELSE /\ loc' = [loc EXCEPT ![t].net1 = None]
                 /\ Goto(t, l.k2)
                 /\ UNCHANGED objs
       ELSE /\ objs' = With(objs, r, NewObj("CtrlNet"))
            /\ loc' = [loc EXCEPT ![t].net1 = r, ![t].new = r, ![t].k = l.k2]
            /\ Goto(t, "cn_insert")
    /\ UNCHANGED <<state, running, nodes, idgen, prefixes, ifs, netlinks, op, shutLog, hooks,
                   stateHooks, log, world>>

ControlNet(t) ==
    LET l == loc[t]
        id == CTRL_NET_ID + l.i
        r == NewRef(id)
    IN
    /\ pc[t] = "arcn"
    /\ IF l.i \notin prefixes /\ l.cr
       THEN \* no controlnet needed
            /\ loc' = [loc EXCEPT ![t].net1 = None]
            /\ Goto(t, l.k2)
            /\ UNCHANGED objs
       ELSE IF id \in DOMAIN nodes
       THEN IF l.rm
            THEN \* self.delete_node(control_net.id)
                 /\ loc' = [loc EXCEPT ![t].net1 = None, ![t].did = id, ![t].dk = l.k2]
                 /\ Goto(t, "dn_pop")
                 /\ UNCHANGED objs
            ELSE /\ loc' = [loc EXCEPT ![t].net1 = nodes[id]]
                 /\ Goto(t, l.k2)
                 /\ UNCHANGED objs
       ELSE IF l.rm
            THEN /\ loc' = [loc EXCEPT ![t].net1 = None]
                 /\ Goto(t, l.k2)
                 /\ UNCHANGED objs
            ELSE \* build a new controlnet bridge
                 /\ objs' = With(objs, r, NewObj("CtrlNet"))
                 /\ loc' = [loc EXCEPT ![t].net1 = r, ![t].new = r, ![t].k = l.k2]
                 /\ Goto(t, "cn_insert")
    /\ UNCHANGED <<state, running, nodes, idgen, prefixes, ifs, netlinks, op, shutLog, hooks,
                   stateHooks, log, world>>

AddRemoveControlNet(t, i, rm, cr) ==
    /\ Begin(t, [NoOp EXCEPT !.name = "add_remove_control_net", !.a = i, !.flag = rm], "arcn",
             [NoLoc EXCEPT !.i = i, !.rm = rm, !.cr = cr])
    /\ UNCHANGED session

\* Session.add_remove_control_interface(node), after add_remove_control_net:
\* the interfaces after node o got its ctrl0 interface on control net c
WithControlInterface(fs, o, c) ==
    IF \E f \in fs : f.node = o /\ f.idx = CTRLIF_IDX_BASE
    THEN fs
    ELSE fs \cup {[node |-> o, idx |-> CTRLIF_IDX_BASE, net |-> c]}

\* add_node in the runtime state: write_nodes, the control interface, the services
AddNodeBoot(t) ==
    /\ pc[t] = "an_boot"
    /\ IF state = RUNTIME_STATE /\ IsHost(loc[t].new)
       THEN /\ loc' = [loc EXCEPT ![t].n1 = loc[t].new, ![t].i = 0, ![t].rm = FALSE,
                                  ![t].cr = TRUE, ![t].k2 = "an_attach"]
            /\ Goto(t, "arcn")
       ELSE /\ loc' = [loc EXCEPT ![t].res = "ok"]
            /\ Goto(t, "ret")
    /\ UNCHANGED <<session, op, shutLog, log, world>>

\* add_node: the rest of add_remove_control_interface(node=node)
AddNodeAttach(t) ==
    LET c == loc[t].net1 IN
    /\ pc[t] = "an_attach"
    /\ IF c = None
       THEN /\ loc' = [loc EXCEPT ![t].res = "ok"]
            /\ UNCHANGED ifs
       ELSE IF objs[c].cls # "CtrlNet"
       THEN \* the node at the control net's id has no CTRLIF_IDX_BASE
            /\ loc' = [loc EXCEPT ![t].res = "error"]
            /\ UNCHANGED ifs
       ELSE /\ loc' = [loc EXCEPT ![t].res = "ok"]
            /\ \E fits \in BOOLEAN :
                  ifs' = IF fits THEN WithControlInterface(ifs, loc[t].n1, c) ELSE ifs
    /\ Goto(t, "ret")
    /\ UNCHANGED <<state, running, nodes, idgen, prefixes, objs, netlinks, op, shutLog, hooks,
                   stateHooks, log, world>>

\* ------------------------------------------------------------ instantiate
Instantiate(t) ==
    /\ Begin(t, [NoOp EXCEPT !.name = "instantiate"], "arcn",
             [NoLoc EXCEPT !.i = 0, !.rm = FALSE, !.cr = TRUE, !.k2 = "in_boot"])
    /\ UNCHANGED session

Hosts == {nodes[k] : k \in {j \in DOMAIN nodes : IsHost(nodes[j])}}

\* boot_nodes: every host gets its control interface (boot_node), when the
\* control net 0 is configured
IfsAfterBoot ==
    IF 0 \in prefixes /\ CTRL_NET_ID \in DOMAIN nodes /\ objs[nodes[CTRL_NET_ID]].cls = "CtrlNet"
    THEN ifs \cup {[node |-> o, idx |-> CTRLIF_IDX_BASE, net |-> nodes[CTRL_NET_ID]] :
                     o \in {h \in Hosts : ~ \E f \in ifs : f.node = h /\ f.idx = CTRLIF_IDX_BASE}}
    ELSE ifs

\* boot_nodes holds _nodes_lock while it waits for its workers; the worker of a
\* host (boot_node) that finds the configured control net 0 missing builds it
\* through create_node, which takes _nodes_lock
BootNeedsLock == Hosts # {} /\ 0 \in prefixes /\ CTRL_NET_ID \notin DOMAIN nodes

\* instantiate: emane.startup() and boot_nodes()
\* instantiate() as if a wireless engine that is not ready did not end the call
MutInstantiateBoot(t) ==
    /\ pc[t] = "in_boot"
    /\ ~ BootNeedsLock
    /\ \E ready \in BOOLEAN :
          LET booted == <<Entry("boot_nodes", "", Cardinality(Hosts))>>
              complete == <<Entry("mobility_startup", "", 0)>>
                              \o Broadcast("event", INSTANTIATION_COMPLETE)
          IN /\ ifs' = IfsAfterBoot
             /\ log' = [log EXCEPT ![t] = @ \o booted \o complete]
             /\ loc' = [loc EXCEPT ![t].res = IF ready THEN "ok" ELSE "not_ready"]
             /\ Goto(t, IF ready THEN "in_runtime" ELSE "ret")
    /\ UNCHANGED <<state, running, nodes, idgen, prefixes, objs, netlinks, op, shutLog, hooks,
                   stateHooks, world>>

InstantiateBoot(t) ==
    /\ pc[t] = "in_boot"
    /\ \E ready \in BOOLEAN, failed \in BOOLEAN :
          \* a worker that has to build the control net waits for _nodes_lock for
          \* ever, and boot_nodes for the worker
          /\ ready => ~ BootNeedsLock
          /\ LET broken == /\ Hosts # {}
                           /\ 0 \in prefixes
                           /\ objs[nodes[CTRL_NET_ID]].cls # "CtrlNet"
                 exceptions == Hosts # {} /\ (failed \/ broken)
                 booted == <<Entry("boot_nodes", "", Cardinality(Hosts))>>
                 complete == <<Entry("mobility_startup", "", 0)>>
                                 \o Broadcast("event", INSTANTIATION_COMPLETE)
             IN IF ~ ready
                THEN /\ loc' = [loc EXCEPT ![t].res = "not_ready"]
                     /\ Goto(t, "ret")
                     /\ UNCHANGED <<ifs, log>>
                ELSE /\ ifs' = IfsAfterBoot
                     /\ IF exceptions
                        THEN /\ loc' = [loc EXCEPT ![t].res = "boot_exceptions"]
                             /\ log' = [log EXCEPT ![t] = @ \o booted]
                             /\ Goto(t, "ret")
                        ELSE /\ log' = [log EXCEPT ![t] = @ \o booted \o complete]
                             /\ loc' = [loc EXCEPT ![t].res =
                                           IF Raised(complete) THEN "raised" ELSE "ok"]
                             /\ Goto(t, IF Raised(complete) THEN "ret" ELSE "in_runtime")
    /\ UNCHANGED <<state, running, nodes, idgen, prefixes, objs, netlinks, op, shutLog, hooks,
                   stateHooks, world>>

\* Session.check_runtime
\* check_runtime() as if it entered RUNTIME without starting the event loop
MutCheckRuntime(t) ==
    LET lg == SetStateLog(state, RUNTIME_STATE, TRUE) IN
    /\ pc[t] = "in_runtime"
    /\ IF state = RUNTIME_STATE
       THEN UNCHANGED <<state, log, loc>>
       ELSE /\ state' = RUNTIME_STATE
            /\ log' = [log EXCEPT ![t] = @ \o lg]
            /\ loc' = [loc EXCEPT ![t].res = IF Raised(lg) THEN "raised" ELSE @]
    /\ Goto(t, "ret")
    /\ UNCHANGED <<running, nodes, idgen, prefixes, objs, ifs, netlinks, op, shutLog, hooks,
                   stateHooks, world>>

CheckRuntime(t) ==
    LET lg == <<Entry("event_loop", "run", 0)>> \o SetStateLog(state, RUNTIME_STATE, TRUE) IN
    /\ pc[t] = "in_runtime"
    /\ IF state = RUNTIME_STATE
       THEN UNCHANGED <<state, running, log, loc>>
       ELSE /\ running' = TRUE
            /\ state' = RUNTIME_STATE
            /\ log' = [log EXCEPT ![t] = @ \o lg]
            /\ loc' = [loc EXCEPT ![t].res = IF Raised(lg) THEN "raised" ELSE @]
    /\ Goto(t, "ret")
    /\ UNCHANGED <<nodes, idgen, prefixes, objs, ifs, netlinks, op, shutLog, hooks, stateHooks,
                   world>>

\* ----------------------------------------------------------- data_collect
\* Session.data_collect: the event loop stops, then the control nets 0..3 go
DataCollect(t) ==
    /\ BeginWith(t, [NoOp EXCEPT !.name = "data_collect"], "arcn",
                 [NoLoc EXCEPT !.i = 0, !.rm = TRUE, !.cr = TRUE, !.k2 = "dc_next"],
                 <<Entry("event_loop", "stop", 0)>>)
    /\ running' = FALSE
    /\ UNCHANGED <<state, nodes, idgen, prefixes, objs, ifs, netlinks, hooks, stateHooks>>

DataCollectNext(t) ==
    /\ pc[t] = "dc_next"
    /\ IF loc[t].i = LastCtrlIndex
       THEN /\ loc' = [loc EXCEPT ![t].res = "ok"]
            /\ Goto(t, "ret")
       ELSE /\ loc' = [loc EXCEPT ![t].i = @ + 1, ![t].k2 = "dc_next", ![t].dk = "ret"]
            /\ Goto(t, "arcn")
    /\ UNCHANGED <<session, op, shutLog, log, world>>

\* ------------------------------------------------------ clear, shutdown
\* Session.clear: delete_nodes, then what is left to clear
Clear(t) ==
    /\ Begin(t, [NoOp EXCEPT !.name = "clear"], "cl_nodes", NoLoc)
    /\ UNCHANGED session

\* delete_nodes without the calls of shutdown
MutDeleteNodes(t) ==
    /\ pc[t] = "cl_nodes"
    /\ nodes' = <<>>
    /\ Goto(t, "cl_idgen")
    /\ UNCHANGED <<state, running, idgen, prefixes, objs, ifs, netlinks, op, loc, shutLog, hooks,
                   stateHooks, log, world>>

\* Session.delete_nodes: under _nodes_lock every node is popped and shut down
DeleteNodes(t) ==
    LET gone == {nodes[k] : k \in DOMAIN nodes} IN
    /\ pc[t] = "cl_nodes"
    /\ nodes' = <<>>
    /\ objs' = [o \in DOMAIN objs |-> IF o \in gone THEN [objs[o] EXCEPT !.shut = @ + 1]
                                                      ELSE objs[o]]
    /\ ifs' = {f \in {[g EXCEPT !.net = IF g.net \in gone THEN None ELSE g.net] : g \in ifs} :
                 f.node \notin gone}
    /\ netlinks' = {l \in netlinks : l[1] \notin gone /\ l[2] \notin gone}
    /\ shutLog' = [shutLog EXCEPT ![t] =
                      [o \in DOMAIN @ \cup gone |->
                          (IF o \in DOMAIN @ THEN @[o] ELSE 0) + (IF o \in gone THEN 1 ELSE 0)]]
    /\ Goto(t, "cl_idgen")
    /\ UNCHANGED <<state, running, idgen, prefixes, op, loc, hooks, stateHooks, log, world>>

\* the end of clear, were it to reset the state as well
MutResetIdGen(t) ==
    /\ pc[t] = "cl_idgen"
    /\ idgen' = 0
    /\ state' = NONE
    /\ Goto(t, "cl_hooks")
    /\ UNCHANGED <<running, nodes, prefixes, objs, ifs, netlinks, op, loc, shutLog, hooks,
                   stateHooks, log, world>>

\* delete_nodes: self.node_id_gen.id = 0
ResetIdGen(t) ==
    /\ pc[t] = "cl_idgen"
    /\ idgen' = 0
    /\ Goto(t, "cl_hooks")
    /\ UNCHANGED <<state, running, nodes, prefixes, objs, ifs, netlinks, op, loc, shutLog, hooks,
                   stateHooks, log, world>>

\* clear, after delete_nodes: del_hooks() empties the table of the hook scripts,
\* and the engines are reset
\* del_hooks() as if it emptied the callback table as well as the script table
MutDelHooks(t) ==
    /\ pc[t] = "cl_hooks"
    /\ hooks' = [s \in States |-> <<>>]
    /\ stateHooks' = [s \in States |-> <<>>]
    /\ IF op[t].name = "shutdown"
       THEN /\ Goto(t, "sd_finish")
            /\ UNCHANGED loc
       ELSE /\ loc' = [loc EXCEPT ![t].res = "ok"]
            /\ Goto(t, "ret")
    /\ UNCHANGED <<state, running, nodes, idgen, prefixes, objs, ifs, netlinks, op, shutLog,
                   log, world>>

DelHooks(t) ==
    /\ pc[t] = "cl_hooks"
    /\ hooks' = [s \in States |-> <<>>]
    /\ IF op[t].name = "shutdown"
       THEN /\ Goto(t, "sd_finish")
            /\ UNCHANGED loc
       ELSE /\ loc' = [loc EXCEPT ![t].res = "ok"]
            /\ Goto(t, "ret")
    /\ UNCHANGED <<state, running, nodes, idgen, prefixes, objs, ifs, netlinks, op, shutLog,
                   stateHooks, log, world>>

\* Session.shutdown: set_state(DATACOLLECT_STATE, send_event=True)
\* shutdown() as if it entered DATACOLLECT without publishing the event
MutShutdown(t) ==
    LET lg == SetStateLog(state, DATACOLLECT_STATE, FALSE) IN
    /\ BeginWith(t, [NoOp EXCEPT !.name = "shutdown"],
                 IF Raised(lg) THEN "ret" ELSE "sd_shutdown",
                 [NoLoc EXCEPT !.res = IF Raised(lg) THEN "raised" ELSE "none"], lg)
    /\ state' = DATACOLLECT_STATE
    /\ UNCHANGED <<running, nodes, idgen, prefixes, objs, ifs, netlinks, hooks, stateHooks>>

Shutdown(t) ==
    LET lg == SetStateLog(state, DATACOLLECT_STATE, TRUE) IN
    /\ BeginWith(t, [NoOp EXCEPT !.name = "shutdown"],
                 IF Raised(lg) THEN "ret" ELSE "sd_shutdown",
                 [NoLoc EXCEPT !.res = IF Raised(lg) THEN "raised" ELSE "none"], lg)
    /\ state' = DATACOLLECT_STATE
    /\ UNCHANGED <<running, nodes, idgen, prefixes, objs, ifs, netlinks, hooks, stateHooks>>

\* shutdown: set_state(SHUTDOWN_STATE, send_event=True), then clear()
ShutdownState(t) ==
    LET lg == SetStateLog(state, SHUTDOWN_STATE, TRUE) IN
    /\ pc[t] = "sd_shutdown"
    /\ state' = SHUTDOWN_STATE
    /\ log' = [log EXCEPT ![t] = @ \o lg]
    /\ loc' = [loc EXCEPT ![t].res = IF Raised(lg) THEN "raised" ELSE @]
    /\ Goto(t, IF Raised(lg) THEN "ret" ELSE "cl_nodes")
    /\ UNCHANGED <<running, nodes, idgen, prefixes, objs, ifs, netlinks, op, shutLog, hooks,
                   stateHooks, world>>

\* shutdown, after clear(): the session directory is removed unless preservedir
\* is set, then the shutdown handlers are called in the order of their list
\* shutdown() as if the shutdown handlers ran before the session directory is removed
MutShutdownFinish(t) ==
    LET lg == Then(CallAll("shutdown_handler", world.handlers, 0),
                   IF world.preserve THEN <<>> ELSE <<Entry("rmtree", "", 0)>>)
    IN
    /\ pc[t] = "sd_finish"
    /\ log' = [log EXCEPT ![t] = @ \o lg]
    /\ loc' = [loc EXCEPT ![t].res = IF Raised(lg) THEN "raised" ELSE "ok"]
    /\ Goto(t, "ret")
    /\ UNCHANGED <<session, op, shutLog, world>>

ShutdownFinish(t) ==
    LET lg == (IF world.preserve THEN <<>> ELSE <<Entry("rmtree", "", 0)>>)
                  \o CallAll("shutdown_handler", world.handlers, 0)
    IN
    /\ pc[t] = "sd_finish"
    /\ log' = [log EXCEPT ![t] = @ \o lg]
    /\ loc' = [loc EXCEPT ![t].res = IF Raised(lg) THEN "raised" ELSE "ok"]
    /\ Goto(t, "ret")
    /\ UNCHANGED <<session, op, shutLog, world>>

\* ------------------------------------------------------------ get_node_id
\* Session.get_node_id: an id of [1, 0xFFFF] that is not registered
GetNodeId(t, id) ==
    /\ id \notin DOMAIN nodes
    /\ Begin(t, [NoOp EXCEPT !.name = "get_node_id"], "ret",
             [NoLoc EXCEPT !.did = id, !.res = "id"])
    /\ UNCHANGED session

\* ------------------------------------------------------- link operations
\* node.netif(ifindex): the interfaces of node o with index x (one, or none)
NetIf(o, x) == {f \in ifs : f.node = o /\ f.idx = x}

\* net.numnetif()
NumNetIf(fs, n) == Cardinality({f \in fs : f.net = n})

\* node.commonnets(other): the (net, interface, interface) triples of the
\* networks both nodes are attached to
CommonNets(o1, o2) ==
    {<<f1.net, f1.idx, f2.idx>> : <<f1, f2>> \in
        {p \in {f \in ifs : f.node = o1} \X {f \in ifs : f.node = o2} :
            p[1].net = p[2].net /\ p[1].net # None}}

\* what distributed.get_tunnel(a, b) returns: nothing, a GreTapBridge or another
\* tunnel, with the id of its remote end
NoTunnel == [kind |-> "none", remotenum |-> 0]
TunnelKinds == {"GreTapBridge", "other"}

\* the tunnel object, where it stands in a network slot
TunnelRef == <<0, 1>>

\* _link_nodes as if a second network took net_one whether or not it is free
MutLinkNodesVia(a, b, tunnel) ==
    LET o1 == nodes[a]
        o2 == nodes[b]
        h1 == IF tunnel.kind # "none" /\ tunnel.remotenum = a THEN None ELSE o1
        h2 == IF tunnel.kind # "none" /\ tunnel.remotenum # a THEN None ELSE o2
        isnet1 == h1 # None /\ IsNet(h1)
        isnet2 == h2 # None /\ IsNet(h2)
        net0 == IF tunnel.kind = "GreTapBridge" THEN TunnelRef ELSE None
        netA == IF isnet1 /\ net0 = None THEN h1 ELSE net0
        netB == IF isnet1 /\ net0 # None THEN h1 ELSE None
    IN [n1 |-> IF isnet1 THEN None ELSE h1,
        n2 |-> IF isnet2 THEN None ELSE h2,
        net1 |-> IF isnet2 THEN h2 ELSE netA,
        net2 |-> netB,
        tunnel |-> tunnel]

\* Session._link_nodes(a, b) with both ids registered, and the tunnel that
\* get_tunnel returns for them: a GreTapBridge takes net_one; the remote end of a
\* tunnel leaves its node slot; a node that is a network moves from its node slot
\* to net_one when that is free, and to net_two when it is not
LinkNodesVia(a, b, tunnel) ==
    LET o1 == nodes[a]
        o2 == nodes[b]
        h1 == IF tunnel.kind # "none" /\ tunnel.remotenum = a THEN None ELSE o1
        h2 == IF tunnel.kind # "none" /\ tunnel.remotenum # a THEN None ELSE o2
        isnet1 == h1 # None /\ IsNet(h1)
        isnet2 == h2 # None /\ IsNet(h2)
        net0 == IF tunnel.kind = "GreTapBridge" THEN TunnelRef ELSE None
        netA == IF isnet1 /\ net0 = None THEN h1 ELSE net0
        netB == IF isnet1 /\ net0 # None THEN h1 ELSE None
    IN [n1 |-> IF isnet1 THEN None ELSE h1,
        n2 |-> IF isnet2 THEN None ELSE h2,
        net1 |-> IF isnet2 /\ netA = None THEN h2 ELSE netA,
        net2 |-> IF isnet2 /\ netA # None THEN h2 ELSE netB,
        tunnel |-> tunnel]

\* Session._link_nodes(a, b) in a session with no tunnels
LinkNodes(a, b) == LinkNodesVia(a, b, NoTunnel)

\* a call of _link_nodes(a, b) on two registered ids, when get_tunnel returns tunnel
ResolveLink(t, a, b, tunnel) ==
    LET r == LinkNodesVia(a, b, tunnel) IN
    /\ a \in DOMAIN nodes /\ b \in DOMAIN nodes
    /\ tunnel.kind # "none" => (a # b /\ tunnel.remotenum \in {a, b})
    /\ tunnel.kind = "none" => tunnel = NoTunnel
    /\ Begin(t, [NoOp EXCEPT !.name = "link_nodes", !.a = a, !.b = b, !.cls = tunnel.kind,
                             !.i1 = tunnel.remotenum], "ret",
             [NoLoc EXCEPT !.n1 = r.n1, !.n2 = r.n2, !.net1 = r.net1, !.net2 = r.net2,
                           !.res = "ok"])
    /\ UNCHANGED session

\* the start of a link operation as if node two were looked up after node one is locked
MutBeginLink(t, o, body) ==
    IF o.a \in DOMAIN nodes /\ o.b \in DOMAIN nodes
    THEN LET r == LinkNodes(o.a, o.b) IN
         Begin(t, o, "lk_lock1",
               [NoLoc EXCEPT !.n1 = r.n1, !.n2 = r.n2, !.net1 = r.net1, !.net2 = r.net2,
                             !.k = body])
    ELSE IF o.a \in DOMAIN nodes
    THEN Begin(t, o, "lk_lock1",
               [NoLoc EXCEPT !.n1 = IF IsNet(nodes[o.a]) THEN None ELSE nodes[o.a],
                             !.k = "lk_unlock", !.res = "unknown_node"])
    ELSE Begin(t, o, "ret", [NoLoc EXCEPT !.res = "unknown_node"])

\* the start of add_link, delete_link and update_link: _link_nodes, which raises
\* for an unknown node id before any lock is taken
BeginLink(t, o, body) ==
    IF o.a \in DOMAIN nodes /\ o.b \in DOMAIN nodes
    THEN LET r == LinkNodes(o.a, o.b) IN
         Begin(t, o, "lk_lock1",
               [NoLoc EXCEPT !.n1 = r.n1, !.n2 = r.n2, !.net1 = r.net1, !.net2 = r.net2,
                             !.k = body])
    ELSE Begin(t, o, "ret", [NoLoc EXCEPT !.res = "unknown_node"])

\* node.lock.acquire() on the reentrant lock of node o
Acquire(os, o, t) == [os EXCEPT ![o].owner = t, ![o].count = @ + 1]

\* node.lock.release()
Release(os, o) ==
    [os EXCEPT ![o].count = @ - 1, ![o].owner = IF os[o].count = 1 THEN 0 ELSE os[o].owner]

CanAcquire(o, t) == objs[o].owner \in {0, t}

\* if node_one: node_one.lock.acquire()
LockOne(t) ==
    /\ pc[t] = "lk_lock1"
    /\ IF loc[t].n1 # None
       THEN /\ CanAcquire(loc[t].n1, t)
            /\ objs' = Acquire(objs, loc[t].n1, t)
       ELSE UNCHANGED objs
    /\ Goto(t, "lk_lock2")
    /\ UNCHANGED <<state, running, nodes, idgen, prefixes, ifs, netlinks, op, loc, shutLog,
                   hooks, stateHooks, log, world>>

\* if node_two: node_two.lock.acquire()
LockTwo(t) ==
    /\ pc[t] = "lk_lock2"
    /\ IF loc[t].n2 # None
       THEN /\ CanAcquire(loc[t].n2, t)
            /\ objs' = Acquire(objs, loc[t].n2, t)
       ELSE UNCHANGED objs
    /\ Goto(t, loc[t].k)
    /\ UNCHANGED <<state, running, nodes, idgen, prefixes, ifs, netlinks, op, loc, shutLog,
                   hooks, stateHooks, log, world>>

\* a finally block that releases the lock of node_one alone
MutReleaseBoth(os, l) == IF l.n1 # None THEN Release(os, l.n1) ELSE os

\* finally: the locks of node_one and node_two are released
ReleaseBoth(os, l) ==
    LET os1 == IF l.n1 # None THEN Release(os, l.n1) ELSE os
    IN IF l.n2 # None THEN Release(os1, l.n2) ELSE os1

Unlock(t) ==
    /\ pc[t] = "lk_unlock"
    /\ objs' = ReleaseBoth(objs, loc[t])
    /\ Goto(t, "ret")
    /\ UNCHANGED <<state, running, nodes, idgen, prefixes, ifs, netlinks, op, loc, shutLog,
                   hooks, stateHooks, log, world>>

\* _link_wireless: the first two of node_one, node_two, net_one, net_two that are set
LinkObjects(l) ==
    IF l.n1 # None /\ l.n2 # None THEN <<l.n1, l.n2>>
    ELSE IF l.n1 # None THEN <<l.n1, l.net1>>
    ELSE IF l.n2 # None THEN <<l.n2, l.net1>>
    ELSE <<l.net1, l.net2>>

\* _link_wireless(objects, connect): the error it raises, or "ok"
LinkWireless(l) ==
    IF CommonNets(LinkObjects(l)[1], LinkObjects(l)[2]) = {} THEN "no_common_network" ELSE "ok"

\* _link_wireless: the (net, interface, interface) triples it calls link or unlink
\* with: the common networks that are wireless; the others are skipped
WirelessLinks(l) ==
    {c \in CommonNets(LinkObjects(l)[1], LinkObjects(l)[2]) : objs[c[1]].cls = "WlanNode"}

\* Session.add_link(a, b, interface_one, interface_two, link_options), with
\* link_options.type and link_options.unidirectional
AddLinkWith(t, a, b, i1, i2, type, unidirectional) ==
    /\ pc[t] = "idle"
    /\ (a \in DOMAIN nodes /\ b \in DOMAIN nodes /\ IsNet(nodes[a]) /\ IsNet(nodes[b]))
          => Cardinality(netlinks) < MaxNetLinks
    /\ BeginLink(t, [NoOp EXCEPT !.name = "add_link", !.a = a, !.b = b, !.i1 = i1, !.i2 = i2,
                                 !.type = type, !.flag = unidirectional], "al_body")
    /\ UNCHANGED session

\* add_link with link options that leave unidirectional unset
AddLink(t, a, b, i1, i2, type) == AddLinkWith(t, a, b, i1, i2, type, FALSE)

\* add_link: the wireless link, or the ptp network of two nodes: its constructor
\* draws the id from get_node_id()
AddLinkBody(t) ==
    LET l == loc[t] IN
    /\ pc[t] = "al_body"
    /\ IF op[t].type = "WIRELESS"
       THEN /\ loc' = [loc EXCEPT ![t].res = LinkWireless(l), ![t].linked = WirelessLinks(l)]
            /\ Goto(t, "lk_unlock")
            /\ UNCHANGED objs
       ELSE IF l.n1 # None /\ l.n2 # None /\ l.net1 = None
       THEN \E id \in world.ids \ DOMAIN nodes :
               LET r == NewRef(id) IN
               /\ objs' = With(objs, r, NewObj("PtpNet"))
               /\ loc' = [loc EXCEPT ![t].new = r, ![t].net1 = r, ![t].k = "al_if1",
                                     ![t].kx = "lk_unlock",
                                     ![t].start = state > DEFINITION_STATE]
               /\ Goto(t, "cn_insert")
       ELSE /\ Goto(t, "al_if1")
            /\ UNCHANGED <<objs, loc>>
    /\ UNCHANGED <<state, running, nodes, idgen, prefixes, ifs, netlinks, op, shutLog, hooks,
                   stateHooks, log, world>>

\* which of the n calls of link_config an operation makes raises (the commands
\* it runs may fail): none (0), or, in a world where they fail, any one of them
LinkConfigFails(n) == IF world.configFails THEN 0..n ELSE {0}

\* create_interface(node, net, interface_data): newnetif refuses an index in use;
\* then link_config(net, interface, link_options), when config is set
CreateInterface(t, o, n, x, next, config) ==
    IF NetIf(o, x) # {}
    THEN /\ loc' = [loc EXCEPT ![t].res = "ifindex_exists"]
         /\ Goto(t, "lk_unlock")
         /\ UNCHANGED ifs
    ELSE /\ ifs' = ifs \cup {[node |-> o, idx |-> x, net |-> n]}
         /\ \E fails \in LinkConfigFails(IF config THEN 1 ELSE 0) :
               IF fails = 1
               THEN /\ loc' = [loc EXCEPT ![t].res = "link_config_error"]
                    /\ Goto(t, "lk_unlock")
               ELSE /\ loc' = [loc EXCEPT ![t].configured =
                                   IF config THEN @ \cup {<<o, x>>} ELSE @]
                    /\ Goto(t, next)

\* add_link: node to network
AddLinkOne(t) ==
    LET l == loc[t] IN
    /\ pc[t] = "al_if1"
    /\ IF l.n1 # None /\ l.net1 # None
       THEN CreateInterface(t, l.n1, l.net1, op[t].i1, "al_if2", TRUE)
       ELSE /\ Goto(t, "al_if2")
            /\ UNCHANGED <<ifs, loc>>
    /\ UNCHANGED <<state, running, nodes, idgen, prefixes, objs, netlinks, op, shutLog, hooks,
                   stateHooks, log, world>>

\* add_link that configures the interface of node two for a unidirectional link too
MutAddLinkTwo(t) ==
    LET l == loc[t] IN
    /\ pc[t] = "al_if2"
    /\ IF l.n2 # None /\ l.net1 # None
       THEN CreateInterface(t, l.n2, l.net1, op[t].i2, "al_net", TRUE)
       ELSE /\ Goto(t, "al_net")
            /\ UNCHANGED <<ifs, loc>>
    /\ UNCHANGED <<state, running, nodes, idgen, prefixes, objs, netlinks, op, shutLog, hooks,
                   stateHooks, log, world>>

\* add_link: network to node; link_config unless the link is unidirectional
AddLinkTwo(t) ==
    LET l == loc[t] IN
    /\ pc[t] = "al_if2"
    /\ IF l.n2 # None /\ l.net1 # None
       THEN CreateInterface(t, l.n2, l.net1, op[t].i2, "al_net", ~ op[t].flag)
       ELSE /\ Goto(t, "al_net")
            /\ UNCHANGED <<ifs, loc>>
    /\ UNCHANGED <<state, running, nodes, idgen, prefixes, objs, netlinks, op, shutLog, hooks,
                   stateHooks, log, world>>

\* add_link, network to network: the calls of interface.swapparams it has made
\* when the call fails of its link_config calls raises; the second link_config,
\* of a link that is not unidirectional, stands between two swapparams
AddLinkSwaps(unidirectional, fails) ==
    IF unidirectional \/ fails = 1 THEN 0
    ELSE IF fails = 2 THEN 1
    ELSE 2

\* add_link: network to network, net_one.linknet(net_two) and link_config
AddLinkNet(t) ==
    LET l == loc[t]
        nets == l.net1 # None /\ l.net2 # None
    IN
    /\ pc[t] = "al_net"
    /\ netlinks' = IF nets THEN netlinks \cup {<<l.net1, l.net2>>} ELSE netlinks
    /\ \E fails \in LinkConfigFails(IF ~ nets THEN 0 ELSE IF op[t].flag THEN 1 ELSE 2) :
          loc' = [loc EXCEPT ![t].res = IF fails = 0 THEN "ok" ELSE "link_config_error",
                             ![t].configured = IF nets /\ fails # 1
                                               THEN @ \cup {<<l.net1, NoIf>>} ELSE @,
                             ![t].swaps = IF nets THEN AddLinkSwaps(op[t].flag, fails) ELSE 0]
    /\ Goto(t, "lk_unlock")
    /\ UNCHANGED <<state, running, nodes, idgen, prefixes, objs, ifs, op, shutLog, hooks,
                   stateHooks, log, world>>

\* Session.delete_link(a, b, interface_one_id, interface_two_id, link_type)
DeleteLink(t, a, b, i1, i2, type) ==
    /\ pc[t] = "idle"
    /\ BeginLink(t, [NoOp EXCEPT !.name = "delete_link", !.a = a, !.b = b, !.i1 = i1,
                                 !.i2 = i2, !.type = type], "dl_body")
    /\ UNCHANGED session

Detached(fs, o, x) == {IF f.node = o /\ f.idx = x THEN [f EXCEPT !.net = None] ELSE f : f \in fs}

\* delete_link between two nodes as if it left the network it empties in the registry
MutDeleteLinkPair(t, x1, x2) ==
    LET l == loc[t]
        f1 == CHOOSE f \in NetIf(l.n1, x1) : TRUE
        f2 == CHOOSE f \in NetIf(l.n2, x2) : TRUE
        fs == Detached(Detached(ifs, l.n1, x1), l.n2, x2)
    IN IF f1.net = None
       THEN /\ loc' = [loc EXCEPT ![t].res = IF f2.net = None THEN "ok" ELSE "error"]
            /\ Goto(t, "lk_unlock")
            /\ UNCHANGED ifs
       ELSE /\ ifs' = fs
            /\ loc' = [loc EXCEPT ![t].x1 = x1, ![t].x2 = x2, ![t].net1 = f1.net]
            /\ Goto(t, "dl_delnetif")

\* delete_link between two nodes, with the interfaces x1 of node_one and x2 of
\* node_two found: both are detached; the network goes when it is left empty
DeleteLinkPair(t, x1, x2) ==
    LET l == loc[t]
        f1 == CHOOSE f \in NetIf(l.n1, x1) : TRUE
        f2 == CHOOSE f \in NetIf(l.n2, x2) : TRUE
        fs == Detached(Detached(ifs, l.n1, x1), l.n2, x2)
    IN IF f1.net = None /\ f2.net = None
       THEN /\ loc' = [loc EXCEPT ![t].res = "ok"]
            /\ Goto(t, "lk_unlock")
            /\ UNCHANGED ifs
       ELSE \E up \in BOOLEAN :
               IF f1.net # f2.net /\ up
               THEN /\ loc' = [loc EXCEPT ![t].res = "no_common_network"]
                    /\ Goto(t, "lk_unlock")
                    /\ UNCHANGED ifs
               ELSE /\ ifs' = fs
                    /\ IF f1.net = None
                       THEN \* net_one is None: net_one.numnetif() raises
                            /\ loc' = [loc EXCEPT ![t].res = "error"]
                            /\ Goto(t, "lk_unlock")
                       ELSE IF NumNetIf(fs, f1.net) = 0
                       THEN /\ loc' = [loc EXCEPT ![t].x1 = x1, ![t].x2 = x2,
                                             ![t].net1 = f1.net,
                                             ![t].did = f1.net[1], ![t].dk = "dl_delnetif"]
                            /\ Goto(t, "dn_pop")
                       ELSE /\ loc' = [loc EXCEPT ![t].x1 = x1, ![t].x2 = x2,
                                             ![t].net1 = f1.net]
                            /\ Goto(t, "dl_delnetif")

\* delete_link between a node and a network: the interface x of node o is
\* detached and deleted
DeleteLinkSingle(t, o, x) ==
    /\ ifs' = {f \in ifs : ~ (f.node = o /\ f.idx = x)}
    /\ loc' = [loc EXCEPT ![t].res = "ok"]
    /\ Goto(t, "lk_unlock")

DeleteLinkBody(t) ==
    LET l == loc[t] IN
    /\ pc[t] = "dl_body"
    /\ IF op[t].type = "WIRELESS"
       THEN /\ loc' = [loc EXCEPT ![t].res = LinkWireless(l), ![t].linked = WirelessLinks(l)]
            /\ Goto(t, "lk_unlock")
            /\ UNCHANGED ifs
       ELSE IF l.n1 # None /\ l.n2 # None
       THEN IF NetIf(l.n1, op[t].i1) = {} /\ NetIf(l.n2, op[t].i2) = {}
            THEN IF CommonNets(l.n1, l.n2) = {}
                 THEN /\ loc' = [loc EXCEPT ![t].res = "ok"]
                      /\ Goto(t, "lk_unlock")
                      /\ UNCHANGED ifs
                 ELSE \E c \in CommonNets(l.n1, l.n2) : DeleteLinkPair(t, c[2], c[3])
            ELSE IF NetIf(l.n1, op[t].i1) # {} /\ NetIf(l.n2, op[t].i2) # {}
            THEN DeleteLinkPair(t, op[t].i1, op[t].i2)
            ELSE /\ loc' = [loc EXCEPT ![t].res = "ok"]
                 /\ Goto(t, "lk_unlock")
                 /\ UNCHANGED ifs
       ELSE IF l.n1 # None /\ l.net1 # None
       THEN DeleteLinkSingle(t, l.n1, op[t].i1)
       ELSE IF l.n2 # None /\ l.net1 # None
       THEN DeleteLinkSingle(t, l.n2, op[t].i2)
       ELSE /\ loc' = [loc EXCEPT ![t].res = "ok"]
            /\ Goto(t, "lk_unlock")
            /\ UNCHANGED ifs
    /\ UNCHANGED <<state, running, nodes, idgen, prefixes, objs, netlinks, op, shutLog, hooks,
                   stateHooks, log, world>>

\* delete_link: node_one.delnetif(...), node_two.delnetif(...)
DeleteLinkNetIfs(t) ==
    LET l == loc[t] IN
    /\ pc[t] = "dl_delnetif"
    /\ ifs' = {f \in ifs : ~ (f.node = l.n1 /\ f.idx = l.x1) /\ ~ (f.node = l.n2 /\ f.idx = l.x2)}
    /\ loc' = [loc EXCEPT ![t].res = "ok"]
    /\ Goto(t, "lk_unlock")
    /\ UNCHANGED <<state, running, nodes, idgen, prefixes, objs, netlinks, op, shutLog, hooks,
                   stateHooks, log, world>>

\* Session.update_link(a, b, interface_one_id, interface_two_id, link_options),
\* with link_options.type and link_options.unidirectional
UpdateLinkWith(t, a, b, i1, i2, type, unidirectional) ==
    /\ pc[t] = "idle"
    /\ BeginLink(t, [NoOp EXCEPT !.name = "update_link", !.a = a, !.b = b, !.i1 = i1,
                                 !.i2 = i2, !.type = type, !.flag = unidirectional], "ul_body")
    /\ UNCHANGED session

\* update_link with link options that leave unidirectional unset
UpdateLink(t, a, b, i1, i2, type) == UpdateLinkWith(t, a, b, i1, i2, type, FALSE)

\* update_link: the error it raises, or "ok"
UpdateLinkResult(l, o) ==
    IF o.type = "WIRELESS.value" THEN "cannot_update_wireless"
    ELSE IF l.n1 = None /\ l.n2 = None
    THEN IF <<l.net1, l.net2>> \in netlinks \/ <<l.net2, l.net1>> \in netlinks
         THEN "ok" ELSE "unknown_link"
    ELSE IF l.n1 = None
    THEN IF NetIf(l.n2, o.i2) = {} THEN "error" ELSE "ok"
    ELSE IF l.n2 = None
    THEN IF NetIf(l.n1, o.i1) = {} THEN "error" ELSE "ok"
    ELSE IF CommonNets(l.n1, l.n2) = {} THEN "no_common_network" ELSE "ok"

\* update_link: the interfaces link_config is called for, as (node, index) pairs;
\* the pseudo-interface between two networks is the pair of net_one and NoIf
UpdateLinkConfigured(l, o) ==
    IF UpdateLinkResult(l, o) # "ok" THEN {}
    ELSE IF l.n1 = None /\ l.n2 = None THEN {<<l.net1, NoIf>>}
    ELSE IF l.n1 = None THEN {<<l.n2, o.i2>>}
    ELSE IF l.n2 = None THEN {<<l.n1, o.i1>>}
    ELSE UNION {{<<l.n1, c[2]>>} \cup (IF o.flag THEN {} ELSE {<<l.n2, c[3]>>}) :
                  c \in {d \in CommonNets(l.n1, l.n2) : o.i1 = NoIf \/ o.i1 = d[2]}}

\* update_link between two networks: the pseudo-interface is found on net_two
\* alone (getlinknetif of net_one finds none)
Upstream(l) == <<l.net1, l.net2>> \notin netlinks

\* update_link between two networks: its calls of link_config
UpdateLinkNetCalls(o) == IF o.flag THEN 1 ELSE 2

\* update_link between two networks: the calls of interface.swapparams it has
\* made when the call fails of its link_config calls raises; upstream, the first
\* link_config stands between two swapparams, and else the second
UpdateLinkSwaps(upstream, unidirectional, fails) ==
    IF upstream
    THEN IF fails = 1 THEN 1 ELSE 2
    ELSE IF unidirectional \/ fails = 1 THEN 0
    ELSE IF fails = 2 THEN 1
    ELSE 2

UpdateLinkBody(t) ==
    LET l == loc[t]
        o == op[t]
        r == UpdateLinkResult(l, o)
        all == UpdateLinkConfigured(l, o)
        nets == r = "ok" /\ l.n1 = None /\ l.n2 = None
        calls == IF nets THEN UpdateLinkNetCalls(o) ELSE Cardinality(all)
    IN
    /\ pc[t] = "ul_body"
    /\ \E fails \in LinkConfigFails(calls) :
          \E done \in IF fails = 0 THEN {all}
                       ELSE IF nets THEN {IF fails = 1 THEN {} ELSE all}
                       ELSE {S \in SUBSET all : Cardinality(S) = fails - 1} :
             loc' = [loc EXCEPT ![t].res = IF fails = 0 THEN r ELSE "link_config_error",
                                ![t].configured = done,
                                ![t].swaps = IF nets
                                             THEN UpdateLinkSwaps(Upstream(l), o.flag, fails)
                                             ELSE 0]
    /\ Goto(t, "lk_unlock")
    /\ UNCHANGED <<session, op, shutLog, log, world>>

\* ------------------------------------------------------------------ specs
\* the session after construction
NewSession ==
    /\ state = NONE
    /\ running = FALSE
    /\ nodes = <<>>
    /\ idgen = 0
    /\ objs = <<>>
    /\ ifs = {}
    /\ netlinks = {}
    /\ op = [t \in Threads |-> NoOp]
    /\ loc = [t \in Threads |-> NoLoc]
    /\ shutLog = [t \in Threads |-> <<>>]
    /\ hooks = [s \in States |-> <<>>]
    /\ stateHooks = [s \in States |-> IF s = RUNTIME_STATE THEN <<"runtime_state_hook">> ELSE <<>>]
    /\ log = [t \in Threads |-> <<>>]

\* one thread; no links
Init ==
    /\ NewSession
    /\ prefixes \in SUBSET (0..MaxCtrl)
    /\ pc = [t \in Threads |-> IF t = 1 THEN "idle" ELSE "off"]
    /\ world = World((1..MaxId) \cup {CTRL_NET_ID + i : i \in 0..MaxCtrl},
                     {"CoreNode", "SwitchNode"})

\* the steps inside the operations on the registry
NodeSteps(t) ==
    \/ Return(t)
    \/ CreateNodeInsert(t)
    \/ DeleteNodePop(t)
    \/ DeleteNodeShutdown(t)
    \/ DeleteNodeCheck(t)
    \/ AddNodeBoot(t)

ClearSteps(t) ==
    \/ DeleteNodes(t)
    \/ ResetIdGen(t)
    \/ DelHooks(t)

LifeSteps(t) ==
    \/ AddNodeAttach(t)
    \/ ControlNet(t)
    \/ InstantiateBoot(t)
    \/ CheckRuntime(t)
    \/ DataCollectNext(t)
    \/ ShutdownState(t)
    \/ ShutdownFinish(t)

LinkSteps(t) ==
    \/ LockOne(t)
    \/ LockTwo(t)
    \/ Unlock(t)
    \/ AddLinkBody(t)
    \/ AddLinkOne(t)
    \/ AddLinkTwo(t)
    \/ AddLinkNet(t)
    \/ DeleteLinkBody(t)
    \/ DeleteLinkNetIfs(t)
    \/ UpdateLinkBody(t)

Next ==
    \E t \in Threads :
        \/ NodeSteps(t)
        \/ ClearSteps(t)
        \/ LifeSteps(t)
        \/ \E s \in States : SetState(t, s)
        \/ \E c \in world.classes, id \in world.ids \cup {0} : AddNode(t, c, id)
        \/ \E id \in world.ids : DeleteNode(t, id)
        \/ \E i \in 0..MaxCtrl, rm \in BOOLEAN, cr \in BOOLEAN : AddRemoveControlNet(t, i, rm, cr)
        \/ Instantiate(t)
        \/ DataCollect(t)
        \/ Clear(t)
        \/ Shutdown(t)
        \/ \E id \in world.ids : GetNodeId(t, id)

Spec == Init /\ [][Next]_vars

\* one thread; nodes and links
InitLink ==
    /\ NewSession
    /\ prefixes = {}
    /\ pc = [t \in Threads |-> IF t = 1 THEN "idle" ELSE "off"]
    /\ world = World(1..MaxLinkId, {"CoreNode", "WlanNode"})

NextLink ==
    \E t \in Threads :
        \/ NodeSteps(t)
        \/ ClearSteps(t)
        \/ LinkSteps(t)
        \/ \E c \in world.classes, id \in world.ids : AddNode(t, c, id)
        \/ \E id \in world.ids : DeleteNode(t, id)
        \/ Clear(t)
        \/ \E a \in world.ids, b \in world.ids, i1 \in IfIndexes, i2 \in IfIndexes,
              type \in LinkTypes : AddLink(t, a, b, i1, i2, type)
        \/ \E a \in world.ids, b \in world.ids, i1 \in IfIndexes, i2 \in IfIndexes,
              type \in LinkTypes : DeleteLink(t, a, b, i1, i2, type)
        \/ \E a \in world.ids, b \in world.ids, i1 \in IfIndexes, i2 \in IfIndexes,
              type \in LinkTypes \cup {"WIRELESS.value"} : UpdateLink(t, a, b, i1, i2, type)

SpecLink == InitLink /\ [][NextLink]_vars

\* one thread; nodes are added and linked, and the links updated and deleted; the
\* caller of update_link names an interface, one that no node has, or none
NextWire ==
    \E t \in Threads :
        \/ NodeSteps(t)
        \/ LinkSteps(t)
        \/ \E c \in world.classes, id \in world.ids : AddNode(t, c, id)
        \/ \E a \in world.ids, b \in world.ids, i1 \in IfIndexes, i2 \in IfIndexes,
              type \in LinkTypes : AddLink(t, a, b, i1, i2, type)
        \/ \E a \in world.ids, b \in world.ids, i1 \in IfIndexes, i2 \in IfIndexes,
              type \in LinkTypes : DeleteLink(t, a, b, i1, i2, type)
        \/ \E a \in world.ids, b \in world.ids, i1 \in NoIf..MaxIf, i2 \in IfIndexes,
              type \in LinkTypes \cup {"WIRELESS.value"} : UpdateLink(t, a, b, i1, i2, type)

SpecWire == InitLink /\ [][NextWire]_vars

\* one thread; nodes are added, and pairs of them resolved with every tunnel that
\* the distributed controller may hold for the pair
NextResolve ==
    \E t \in Threads :
        \/ Return(t)
        \/ CreateNodeInsert(t)
        \/ AddNodeBoot(t)
        \/ \E c \in world.classes, id \in world.ids : AddNode(t, c, id)
        \/ \E a \in world.ids, b \in world.ids, kind \in TunnelKinds \cup {"none"},
              remote \in world.ids \cup {0} :
              ResolveLink(t, a, b, [kind |-> kind, remotenum |-> remote])

SpecResolve == InitLink /\ [][NextResolve]_vars

\* two threads, one operation each, on a session that holds some nodes
InitConc ==
    /\ state = CONFIGURATION_STATE
    /\ running = FALSE
    /\ \E S \in SUBSET (1..2) :
          /\ nodes = [k \in S |-> <<k, 0>>]
          /\ objs = [o \in {<<k, 0>> : k \in S} |-> NewObj("CoreNode")]
    /\ idgen = 0
    /\ ifs = {}
    /\ netlinks = {}
    /\ op = [t \in Threads |-> NoOp]
    /\ loc = [t \in Threads |-> NoLoc]
    /\ shutLog = [t \in Threads |-> <<>>]
    /\ hooks = [s \in States |-> <<>>]
    /\ stateHooks = [s \in States |-> IF s = RUNTIME_STATE THEN <<"runtime_state_hook">> ELSE <<>>]
    /\ log = [t \in Threads |-> <<>>]
    /\ prefixes = {}
    /\ pc = [t \in Threads |-> "idle"]
    /\ world = World(1..MaxLinkId, {"CoreNode"})

NextConc ==
    \E t \in Threads :
        \/ NodeSteps(t)
        \/ LinkSteps(t)
        \/ \E c \in world.classes, id \in world.ids \cup {0} : AddNode(t, c, id)
        \/ \E id \in world.ids : DeleteNode(t, id)
        \/ \E a \in world.ids, b \in world.ids, type \in LinkTypes : AddLink(t, a, b, 0, 0, type)
        \/ \E a \in world.ids, b \in world.ids, type \in LinkTypes : DeleteLink(t, a, b, 0, 0, type)
        \/ \E a \in world.ids, b \in world.ids, type \in LinkTypes : UpdateLink(t, a, b, 0, 0, type)

SpecConc == InitConc /\ [][NextConc]_vars

\* one thread; every operation, on a session of container nodes
InitAll ==
    /\ NewSession
    /\ prefixes = {}
    /\ pc = [t \in Threads |-> IF t = 1 THEN "idle" ELSE "off"]
    /\ world = World(1..MaxLinkId, {"CoreNode"})

NextAll ==
    \E t \in Threads :
        \/ NodeSteps(t)
        \/ ClearSteps(t)
        \/ LifeSteps(t)
        \/ LinkSteps(t)
        \/ \E s \in States : SetState(t, s)
        \/ \E c \in world.classes, id \in 1..MaxId : AddNode(t, c, id)
        \/ \E id \in world.ids : DeleteNode(t, id)
        \/ Instantiate(t)
        \/ DataCollect(t)
        \/ Clear(t)
        \/ Shutdown(t)
        \/ \E a \in world.ids, b \in world.ids, type \in LinkTypes : AddLink(t, a, b, 0, 0, type)
        \/ \E a \in world.ids, b \in world.ids : DeleteLink(t, a, b, 0, 0, "WIRED")
        \/ \E a \in world.ids, b \in world.ids : UpdateLink(t, a, b, 0, 0, "WIRED")

SpecAll == InitAll /\ [][NextAll]_vars

\* the sequences without repetition over S, of a length up to n
RECURSIVE Lists(_, _)
Lists(S, n) ==
    IF n = 0 THEN {<<>>}
    ELSE {<<>>} \cup UNION {{<<x>> \o q : q \in Lists(S \ {x}, n - 1)} : x \in S}

\* one thread; the lifecycle of a session with hooks, handlers and one node
InitHook ==
    /\ NewSession
    /\ prefixes = {}
    /\ pc = [t \in Threads |-> IF t = 1 THEN "idle" ELSE "off"]
    /\ \E preserve \in BOOLEAN :
          world = [World({1}, {"CoreNode"}) EXCEPT
                      !.sinks = [b \in Buses |-> IF b = "event" THEN <<"e1", "e2">>
                                                 ELSE IF b = "exception" THEN <<"x1">>
                                                 ELSE <<>>],
                      !.handlers = <<"h1", "h2">>,
                      !.preserve = preserve,
                      !.hookStates = {CONFIGURATION_STATE}]

NextHook ==
    \E t \in Threads :
        \/ NodeSteps(t)
        \/ ClearSteps(t)
        \/ LifeSteps(t)
        \/ \E s \in States : SetState(t, s)
        \/ \E s \in world.hookStates, h \in Scripts : AddHook(t, s, h)
        \/ \E s \in world.hookStates, cb \in Callbacks : AddStateHook(t, s, cb)
        \/ \E c \in world.classes, id \in world.ids : AddNode(t, c, id)
        \/ \E id \in world.ids : DeleteNode(t, id)
        \/ Instantiate(t)
        \/ DataCollect(t)
        \/ Clear(t)
        \/ Shutdown(t)

SpecHook == InitHook /\ [][NextHook]_vars

\* one thread; broadcasts and state changes of a session whose handlers may raise
InitSink ==
    /\ NewSession
    /\ prefixes = {}
    /\ pc = [t \in Threads |-> IF t = 1 THEN "idle" ELSE "off"]
    /\ \E q \in Lists({"s1", "s2", "sink_raises"}, MaxSinks) :
          world = [World({}, {}) EXCEPT !.sinks = [b \in Buses |-> q],
                                        !.hookStates = {CONFIGURATION_STATE}]

NextSink ==
    \E t \in Threads :
        \/ Return(t)
        \/ \E bus \in Buses, item \in 1..MaxItem : Publish(t, bus, item)
        \/ \E s \in States : SetState(t, s)
        \/ \E s \in world.hookStates, cb \in Callbacks : AddStateHook(t, s, cb)

SpecSink == InitSink /\ [][NextSink]_vars

\* one thread; callbacks are added to and deleted from two states of a session
\* that changes its state
InitStateHook ==
    /\ NewSession
    /\ prefixes = {}
    /\ pc = [t \in Threads |-> IF t = 1 THEN "idle" ELSE "off"]
    /\ world = [World({}, {}) EXCEPT
                   !.sinks = [b \in Buses |-> IF b = "exception" THEN <<"x1">> ELSE <<>>],
                   !.hookStates = {CONFIGURATION_STATE, RUNTIME_STATE}]

NextStateHook ==
    \E t \in Threads :
        \/ Return(t)
        \/ \E s \in States : SetState(t, s)
        \/ \E s \in world.hookStates, cb \in Callbacks : AddStateHook(t, s, cb)
        \/ \E s \in world.hookStates, cb \in Callbacks \cup {"runtime_state_hook"} :
               DelStateHook(t, s, cb)

SpecStateHook == InitStateHook /\ [][NextStateHook]_vars

\* one thread; events are added to a session that changes its state
NextEvent ==
    \E t \in Threads :
        \/ Return(t)
        \/ \E s \in States : SetState(t, s)
        \/ \E event_time \in 0..MaxTime, elapsed \in 0..MaxTime : AddEvent(t, event_time, elapsed)

SpecEvent == InitStateHook /\ [][NextEvent]_vars

\* one thread; nodes of the classes get_node_count tells apart come and go
InitCount ==
    /\ NewSession
    /\ prefixes = {}
    /\ pc = [t \in Threads |-> IF t = 1 THEN "idle" ELSE "off"]
    /\ world = World(1..MaxLinkId, {"CoreNode", "PtpNet", "CtrlNet", "GreTapBridge", "TunnelNode"})

NextCount ==
    \E t \in Threads :
        \/ NodeSteps(t)
        \/ \E c \in world.classes, id \in world.ids : AddNode(t, c, id)
        \/ \E id \in world.ids : DeleteNode(t, id)
        \/ GetNodeCount(t)

SpecCount == InitCount /\ [][NextCount]_vars

\* two threads, one link operation each, on a session whose two container nodes
\* are linked by a PtpNet
InitRound ==
    /\ state = CONFIGURATION_STATE
    /\ running = FALSE
    /\ nodes = [k \in 1..3 |-> <<k, 0>>]
    /\ objs = [o \in {<<k, 0>> : k \in 1..3} |-> NewObj(IF o[1] = 3 THEN "PtpNet" ELSE "CoreNode")]
    /\ idgen = 0
    /\ ifs = {[node |-> <<k, 0>>, idx |-> 0, net |-> <<3, 0>>] : k \in 1..2}
    /\ netlinks = {}
    /\ op = [t \in Threads |-> NoOp]
    /\ loc = [t \in Threads |-> NoLoc]
    /\ shutLog = [t \in Threads |-> <<>>]
    /\ hooks = [s \in States |-> <<>>]
    /\ stateHooks = [s \in States |-> IF s = RUNTIME_STATE THEN <<"runtime_state_hook">> ELSE <<>>]
    /\ log = [t \in Threads |-> <<>>]
    /\ prefixes = {}
    /\ pc = [t \in Threads |-> "idle"]
    /\ world = World(1..MaxLinkId, {"CoreNode"})

NextRound ==
    \E t \in Threads :
        \/ Return(t)
        \/ CreateNodeInsert(t)
        \/ DeleteNodePop(t)
        \/ DeleteNodeShutdown(t)
        \/ DeleteNodeCheck(t)
        \/ LockOne(t)
        \/ LockTwo(t)
        \/ Unlock(t)
        \/ AddLinkBody(t)
        \/ AddLinkOne(t)
        \/ AddLinkTwo(t)
        \/ AddLinkNet(t)
        \/ DeleteLinkBody(t)
        \/ DeleteLinkNetIfs(t)
        \/ \E a \in 1..2, b \in 1..2, unidirectional \in BOOLEAN :
               AddLinkWith(t, a, b, 0, 0, "WIRED", unidirectional)
        \/ \E a \in 1..2, b \in 1..2 : DeleteLink(t, a, b, 0, 0, "WIRED")

SpecRound == InitRound /\ [][NextRound]_vars

\* two threads, one set_state each, on a new session
InitState ==
    /\ NewSession
    /\ prefixes = {}
    /\ pc = [t \in Threads |-> "idle"]
    /\ world = [World({}, {}) EXCEPT
                   !.sinks = [b \in Buses |-> IF b = "event" THEN <<"e1">> ELSE <<>>]]

NextState ==
    \E t \in Threads :
        \/ Return(t)
        \/ \E s \in States, send \in BOOLEAN : SetStateCall(t, s, send)
        \/ SetStateStore(t)
        \/ SetStateWrite(t)
        \/ SetStateHooks(t)

SpecState == InitState /\ [][NextState]_vars

\* two threads, one operation each, on a session with a container node whose
\* control net 0 is configured
InitBoot ==
    /\ state = INSTANTIATION_STATE
    /\ running = FALSE
    /\ nodes = [k \in {1} |-> <<1, 0>>]
    /\ objs = [o \in {<<1, 0>>} |-> NewObj("CoreNode")]
    /\ idgen = 1
    /\ ifs = {}
    /\ netlinks = {}
    /\ op = [t \in Threads |-> NoOp]
    /\ loc = [t \in Threads |-> NoLoc]
    /\ shutLog = [t \in Threads |-> <<>>]
    /\ hooks = [s \in States |-> <<>>]
    /\ stateHooks = [s \in States |-> IF s = RUNTIME_STATE THEN <<"runtime_state_hook">> ELSE <<>>]
    /\ log = [t \in Threads |-> <<>>]
    /\ prefixes = {0}
    /\ pc = [t \in Threads |-> "idle"]
    /\ world = World({1, CTRL_NET_ID}, {"CoreNode"})

NextBoot ==
    \E t \in Threads :
        \/ Return(t)
        \/ CreateNodeInsert(t)
        \/ DeleteNodePop(t)
        \/ DeleteNodeShutdown(t)
        \/ DeleteNodeCheck(t)
        \/ ControlNet(t)
        \/ InstantiateBoot(t)
        \/ CheckRuntime(t)
        \/ Instantiate(t)
        \/ \E id \in world.ids : DeleteNode(t, id)

SpecBoot == InitBoot /\ [][NextBoot]_vars

\* one thread; links between the nodes and networks of a session whose
\* link_config calls may fail
InitSwap ==
    /\ NewSession
    /\ prefixes = {}
    /\ pc = [t \in Threads |-> IF t = 1 THEN "idle" ELSE "off"]
    /\ world = [World(1..MaxLinkId, {"CoreNode", "SwitchNode"}) EXCEPT !.configFails = TRUE]

NextSwap ==
    \E t \in Threads :
        \/ NodeSteps(t)
        \/ LinkSteps(t)
        \/ \E c \in world.classes, id \in world.ids : AddNode(t, c, id)
        \/ \E a \in world.ids, b \in world.ids, unidirectional \in BOOLEAN :
               AddLinkWith(t, a, b, 0, 0, "WIRED", unidirectional)
        \/ \E a \in world.ids, b \in world.ids : DeleteLink(t, a, b, 0, 0, "WIRED")
        \/ \E a \in world.ids, b \in world.ids, unidirectional \in BOOLEAN :
               UpdateLinkWith(t, a, b, 0, 0, "WIRED", unidirectional)

SpecSwap == InitSwap /\ [][NextSwap]_vars

C2_LoopRunsOnlyInRuntime == running => state = RUNTIME_STATE

C6_RegistryConsistent ==
    \A k \in DOMAIN nodes :
        /\ nodes[k][1] = k
        /\ nodes[k] \in DOMAIN objs
        /\ objs[nodes[k]].shut = 0

\* C6: delete_node has popped and shut down a node while other nodes stay
\* registered
C6_Witness ==
    \E t \in Threads :
        /\ pc[t] = "ret"
        /\ op[t].name = "delete_node"
        /\ loc[t].res = "deleted"
        /\ \E o \in DOMAIN shutLog[t] : o[1] = op[t].a /\ objs[o].shut = 1
        /\ DOMAIN nodes # {}

\* C8, as the claim states it: the ids CTRL_NET_ID + 0..3 belong to the control
\* networks, no other node is ever registered under one of them
C8_ControlIdsReserved ==
    \A k \in DOMAIN nodes : k \in CtrlIds => objs[nodes[k]].cls = "CtrlNet"

\* C10: delete_nodes empties the registry and calls shutdown() once on each
\* node that was registered; when clear() or shutdown() has returned, the
\* registry is empty, the id counter is 0 and the next generated id is 1
C10_ClearEmptiesRegistry ==
    /\ [][\A t \in Threads :
            pc[t] = "cl_nodes" /\ pc'[t] = "cl_idgen"
                => /\ nodes' = <<>>
                   /\ shutLog'[t] = [o \in {nodes[k] : k \in DOMAIN nodes} |-> 1]
                   /\ \A k \in DOMAIN nodes : objs'[nodes[k]].shut = objs[nodes[k]].shut + 1]_vars
    /\ [](\A t \in Threads :
            pc[t] = "ret" /\ op[t].name \in {"clear", "shutdown"}
                => /\ nodes = <<>>
                   /\ idgen = 0
                   /\ NextGenId = 1
                   /\ \A o \in DOMAIN shutLog[t] : shutLog[t][o] = 1 /\ objs[o].shut = 1)

\* C10: clear() has returned after it shut down two registered nodes
C10_Witness ==
    \E t \in Threads :
        /\ pc[t] = "ret"
        /\ op[t].name = "clear"
        /\ Cardinality(DOMAIN shutLog[t]) >= 2
        /\ nodes = <<>>
        /\ idgen = 0

\* C3, as the claim states it: when add_link and a delete_node of one of its
\* endpoints have both finished, no interface of a node that is gone from the
\* registry is attached to a network
C3_NoInterfaceOfDeletedNode ==
    (/\ \A t \in Threads : pc[t] = "done"
     /\ \E t \in Threads, u \in Threads :
           /\ op[t].name = "add_link"
           /\ op[u].name = "delete_node"
           /\ op[u].a \in {op[t].a, op[t].b})
        => \A f \in ifs :
              f.net # None => f.node[1] \in DOMAIN nodes /\ nodes[f.node[1]] = f.node

\* C4: a node lock is held exactly as often as the running link operations have
\* acquired it: once per endpoint slot the node fills, from the acquire to the
\* finally block; a link operation that has returned or raised holds none
C4_LocksReleasedAsAcquired ==
    \A o \in DOMAIN objs :
        LET held(t) ==
                IF op[t].name \notin {"add_link", "delete_link", "update_link"}
                       \/ pc[t] \in {"idle", "off", "ret", "done", "lk_lock1"}
                THEN 0
                ELSE (IF loc[t].n1 = o THEN 1 ELSE 0)
                         + (IF loc[t].n2 = o /\ pc[t] # "lk_lock2" THEN 1 ELSE 0)
        IN /\ objs[o].count = held(1) + held(2)
           /\ objs[o].count > 0 => objs[o].owner \in Threads /\ held(objs[o].owner) > 0
           /\ objs[o].count = 0 => objs[o].owner = 0

\* C4: a link operation that took the lock of one node twice has raised, and the
\* lock is free again
C4_Witness ==
    \E t \in Threads :
        /\ pc[t] \in {"ret", "done"}
        /\ op[t].name \in {"add_link", "delete_link", "update_link"}
        /\ loc[t].res \notin {"ok", "none"}
        /\ loc[t].n1 # None
        /\ loc[t].n1 = loc[t].n2
        /\ objs[loc[t].n1].count = 0

\* C7: an add_node that found its id taken has raised, has called shutdown() on
\* the node it built and on no other, and the registry keeps another, live node
\* under the id; of two add_node calls with one id that have both returned, at
\* most one has succeeded, the id is registered, and it maps to the node of the
\* call that succeeded
C7_DuplicateIdRefused ==
    /\ \A t \in Threads :
          pc[t] \in {"ret", "done"} /\ op[t].name = "add_node" /\ loc[t].res = "duplicate"
              => /\ shutLog[t] = [o \in {loc[t].new} |-> 1]
                 /\ objs[loc[t].new].shut = 1
                 /\ \A k \in DOMAIN nodes : nodes[k] # loc[t].new /\ objs[nodes[k]].shut = 0
    /\ (/\ \A t \in Threads : pc[t] = "done" /\ op[t].name = "add_node"
        /\ loc[1].new[1] = loc[2].new[1])
          => /\ loc[1].new[1] \in DOMAIN nodes
             /\ "duplicate" \in {loc[1].res, loc[2].res}
             /\ \A t \in Threads : loc[t].res = "ok" => nodes[loc[t].new[1]] = loc[t].new
             /\ (\A t \in Threads : loc[t].res = "duplicate")
                   => nodes[loc[1].new[1]] \notin {loc[1].new, loc[2].new}

\* C7: two threads have added a node under one free id; one was registered, the
\* other refused
C7_Witness ==
    /\ \A t \in Threads : pc[t] = "done" /\ op[t].name = "add_node"
    /\ loc[1].new[1] = loc[2].new[1]
    /\ loc[1].new # loc[2].new
    /\ {loc[1].res, loc[2].res} = {"ok", "duplicate"}
    /\ \E t \in Threads : nodes[loc[1].new[1]] = loc[t].new /\ loc[t].res = "ok"

\* C5, as the claim states it: once an operation has returned or raised, every
\* PEER_TO_PEER network of the registry has an interface attached
C5_NoEmptyPtpNet ==
    (\A t \in Threads : pc[t] \in {"idle", "off", "ret", "done"})
        => \A k \in DOMAIN nodes :
              objs[nodes[k]].cls = "PtpNet" => NumNetIf(ifs, nodes[k]) > 0


C12_SetStateOrder ==
    \A t \in Threads :
        (pc[t] = "ret" /\ op[t].name = "set_state" /\ loc[t].s0 # op[t].a)
            => LET lg == log[t]
                   S == op[t].a
                   At(what) == {i \in 1..Len(lg) : lg[i].what = what}
                   IsScript(e) == e.what = "script"
                   IsCallback(e) == e.what = "callback"
                   IsEvent(e) == e.what = "event"
                   Who(q) == [i \in 1..Len(q) |-> q[i].who]
               IN /\ state = S
                  /\ At("state") = {1} /\ lg[1].arg = S
                  /\ Cardinality(At("file")) = 1
                  /\ Who(SelectSeq(lg, IsScript)) = hooks[S]
                  /\ Who(SelectSeq(lg, IsCallback)) = stateHooks[S]
                  /\ \A i \in At("state"), j \in At("file") : i < j
                  /\ \A i \in At("file"), j \in At("script") : i < j
                  /\ \A i \in At("script"), j \in At("callback") : i < j
                  /\ \A i \in At("file") \cup At("script") \cup At("callback"),
                        j \in At("event") : i < j
                  /\ Who(SelectSeq(lg, IsEvent))
                        = (IF op[t].flag THEN world.sinks["event"] ELSE <<>>)
                  /\ \A j \in At("event") : lg[j].arg = S

\* set_state(S, send_event = True) has returned in a session that was in another
\* state and holds two script hooks and two callback hooks for S
C12_Witness ==
    \E t \in Threads :
        /\ pc[t] = "ret" /\ op[t].name = "set_state" /\ loc[t].s0 # op[t].a
        /\ op[t].flag
        /\ Len(hooks[op[t].a]) = 2
        /\ Len(stateHooks[op[t].a]) = 2
        /\ \E i \in 1..Len(log[t]) : log[t][i].what = "event"

\* C13: set_state(S) in a session that is in state S already changes nothing: the
\* state and its time stamp are not stored again, no state file is written, no
\* hook runs and no event is published, whatever send_event is
C13_SetStateSameStateIsNoOp ==
    \A t \in Threads :
        (pc[t] = "ret" /\ op[t].name = "set_state" /\ loc[t].s0 = op[t].a)
            => state = loc[t].s0 /\ log[t] = <<>>

\* set_state(S, send_event = True) has returned in a session that was in state S and
\* holds a script hook and a callback hook for S
C13_Witness ==
    \E t \in Threads :
        /\ pc[t] = "ret" /\ op[t].name = "set_state" /\ loc[t].s0 = op[t].a
        /\ op[t].flag
        /\ hooks[op[t].a] # <<>>
        /\ stateHooks[op[t].a] # <<>>


\* C14: a callback hook that raises during set_state(S) does not end the call: the
\* exception is caught, every callback hook of S still runs in registration order,
\* each exception handler receives one exception event of level ERROR for each hook
\* that raised, right after that hook, the state is S when the call returns, and
\* the lifecycle event still reaches every event handler when send_event is set
C14_CallbackFailureIsReported ==
    \A t \in Threads :
        (/\ pc[t] = "ret" /\ op[t].name = "set_state" /\ loc[t].s0 # op[t].a
         /\ \E i \in 1..Len(stateHooks[op[t].a]) : stateHooks[op[t].a][i] \in RaisingCallbacks)
            => LET lg == log[t]
                   S == op[t].a
                   xs == world.sinks["exception"]
                   IsCallback(e) == e.what = "callback"
                   IsException(e) == e.what = "exception"
                   IsEvent(e) == e.what = "event"
                   Who(q) == [i \in 1..Len(q) |-> q[i].who]
               IN /\ loc[t].res = "ok"
                  /\ state = S
                  /\ Who(SelectSeq(lg, IsCallback)) = stateHooks[S]
                  /\ \A i \in 1..Len(lg) :
                        (lg[i].what = "callback" /\ lg[i].who \in RaisingCallbacks)
                            => /\ i + Len(xs) <= Len(lg)
                               /\ \A k \in 1..Len(xs) :
                                     lg[i + k] = Entry("exception", xs[k], ERROR)
                  /\ Len(SelectSeq(lg, IsException))
                        = Len(xs) * Cardinality({i \in 1..Len(lg) :
                                                    /\ lg[i].what = "callback"
                                                    /\ lg[i].who \in RaisingCallbacks})
                  /\ op[t].flag => Who(SelectSeq(lg, IsEvent)) = world.sinks["event"]

\* set_state(S, send_event = True) has returned in a session whose first callback
\* hook for S raises and whose second one returns
C14_Witness ==
    \E t \in Threads :
        /\ pc[t] = "ret" /\ op[t].name = "set_state" /\ loc[t].s0 # op[t].a
        /\ op[t].flag
        /\ stateHooks[op[t].a] = <<"hook_raises", "hook">>
        /\ world.sinks["exception"] # <<>>
        /\ \E i \in 1..Len(log[t]) : log[t][i] = Entry("callback", "hook", 0)

\* C15, as the claim states it: when a script hook of S fails during set_state(S),
\* the exception handlers receive an exception event of level ERROR, and the
\* transition is not aborted: the state is S and the hooks after it still run
C15_ScriptFailureIsReported ==
    \A t \in Threads :
        (/\ pc[t] = "ret" /\ op[t].name = "set_state" /\ loc[t].s0 # op[t].a
         /\ \E i \in 1..Len(log[t]) : log[t][i].what = "script" /\ log[t][i].arg # 0)
            => /\ state = op[t].a
               /\ world.sinks["exception"] # <<>>
                    => \E j \in 1..Len(log[t]) :
                          log[t][j].what = "exception" /\ log[t][j].arg = ERROR


\* C16, as the claim states it: a broadcast on any of the six buses calls every
\* handler registered on the bus exactly once, in registration order, and a handler
\* that raises does not abort the broadcast: the handlers after it are still called,
\* the exception does not reach the caller and it is published as an exception event
C16_BroadcastReachesEverySink ==
    \A t \in Threads :
        (pc[t] = "ret" /\ op[t].name = "broadcast")
            => LET lg == log[t]
                   bus == op[t].cls
                   sinks == world.sinks[bus]
                   calls == {i \in 1..Len(lg) : lg[i].what = bus /\ lg[i].arg = op[t].a}
               IN /\ loc[t].res = "ok"
                  /\ \A k \in 1..Len(sinks) :
                        Cardinality({i \in calls : lg[i].who = sinks[k]}) = 1
                  /\ \A i, j \in calls :
                        i < j => \E k, l \in 1..Len(sinks) :
                                    k < l /\ lg[i].who = sinks[k] /\ lg[j].who = sinks[l]
                  /\ (\E k \in 1..Len(sinks) : sinks[k] \in RaisingSinks)
                        => \E i \in 1..Len(lg) : lg[i].what = "exception" /\ i \notin calls


\* C17, as the claim states it: an instantiate() whose wireless engine is ready ends
\* in RUNTIME with the event loop started exactly when no node failed to boot, and
\* then every event handler has received one INSTANTIATION_COMPLETE event, before
\* the RUNTIME lifecycle event; when a node failed to boot the state is the one the
\* call found, no INSTANTIATION_COMPLETE event is published and the event loop is
\* not started
C17_InstantiateEntersRuntime ==
    \A t \in Threads :
        (pc[t] = "ret" /\ op[t].name = "instantiate"
                      /\ loc[t].res \in {"ok", "boot_exceptions"})
            => LET lg == log[t]
                   es == world.sinks["event"]
                   Ev(s) == {i \in 1..Len(lg) : lg[i].what = "event" /\ lg[i].arg = s}
                   started == \E i \in 1..Len(lg) : lg[i] = Entry("event_loop", "run", 0)
               IN /\ (state = RUNTIME_STATE /\ started) <=> loc[t].res = "ok"
                  /\ loc[t].res = "ok"
                        => /\ \A k \in 1..Len(es) :
                                 Cardinality({i \in Ev(INSTANTIATION_COMPLETE) :
                                                 lg[i].who = es[k]}) = 1
                           /\ Ev(RUNTIME_STATE) # {}
                           /\ \A i \in Ev(INSTANTIATION_COMPLETE), j \in Ev(RUNTIME_STATE) :
                                 i < j
                  /\ loc[t].res = "boot_exceptions"
                        => state = loc[t].s0 /\ Ev(INSTANTIATION_COMPLETE) = {} /\ ~ started

\* C17, as the code has it: the claim holds for an instantiate() called in a state
\* other than RUNTIME. Called in RUNTIME with no boot failure, it publishes one
\* INSTANTIATION_COMPLETE event to every event handler and nothing else: the state
\* stays RUNTIME, no RUNTIME event is published and the event loop is not started.
\* With a boot failure the state is the one the call found, no event is published
\* and the event loop is not started
C17_InstantiateEntersRuntimeOnce ==
    \A t \in Threads :
        (pc[t] = "ret" /\ op[t].name = "instantiate"
                      /\ loc[t].res \in {"ok", "boot_exceptions"})
            => LET lg == log[t]
                   es == world.sinks["event"]
                   Ev(s) == {i \in 1..Len(lg) : lg[i].what = "event" /\ lg[i].arg = s}
                   started == \E i \in 1..Len(lg) : lg[i] = Entry("event_loop", "run", 0)
                   OncePerSink(s) == \A k \in 1..Len(es) :
                                        Cardinality({i \in Ev(s) : lg[i].who = es[k]}) = 1
               IN /\ (loc[t].res = "ok" /\ loc[t].s0 # RUNTIME_STATE)
                        => /\ state = RUNTIME_STATE /\ running /\ started
                           /\ OncePerSink(INSTANTIATION_COMPLETE)
                           /\ OncePerSink(RUNTIME_STATE)
                           /\ Cardinality(Ev(INSTANTIATION_COMPLETE)) = Len(es)
                           /\ Cardinality(Ev(RUNTIME_STATE)) = Len(es)
                           /\ \A i \in Ev(INSTANTIATION_COMPLETE), j \in Ev(RUNTIME_STATE) :
                                 i < j
                  /\ (loc[t].res = "ok" /\ loc[t].s0 = RUNTIME_STATE)
                        => /\ state = RUNTIME_STATE /\ ~ started
                           /\ OncePerSink(INSTANTIATION_COMPLETE)
                           /\ Ev(RUNTIME_STATE) = {}
                           /\ \A i \in 1..Len(lg) : lg[i].what # "state"
                  /\ loc[t].res = "boot_exceptions"
                        => /\ state = loc[t].s0 /\ ~ started
                           /\ \A i \in 1..Len(lg) : lg[i].what \notin {"event", "state"}

\* instantiate() has returned without boot failure in a session that was in
\* CONFIGURATION and holds a node to boot: the session is in RUNTIME
C17_Witness ==
    \E t \in Threads :
        /\ pc[t] = "ret" /\ op[t].name = "instantiate" /\ loc[t].res = "ok"
        /\ loc[t].s0 = CONFIGURATION_STATE
        /\ state = RUNTIME_STATE /\ running
        /\ Hosts # {}
        /\ \E i \in 1..Len(log[t]) : log[t][i] = Entry("event", "e1", INSTANTIATION_COMPLETE)

\* C18: an instantiate() whose wireless engine reports NOT_READY leaves the state as
\* it found it, boots no node, does not start mobility, publishes no
\* INSTANTIATION_COMPLETE event and does not start the event loop
C18_NotReadyDoesNothing ==
    \A t \in Threads :
        (pc[t] = "ret" /\ op[t].name = "instantiate" /\ loc[t].res = "not_ready")
            => /\ state = loc[t].s0
               /\ \A i \in 1..Len(log[t]) :
                     log[t][i].what \notin {"boot_nodes", "mobility_startup", "event",
                                            "event_loop", "state"}

\* instantiate() has returned on NOT_READY in a session in CONFIGURATION that holds
\* a node to boot
C18_Witness ==
    \E t \in Threads :
        /\ pc[t] = "ret" /\ op[t].name = "instantiate" /\ loc[t].res = "not_ready"
        /\ loc[t].s0 = CONFIGURATION_STATE
        /\ Hosts # {}
        /\ ~ running


\* C19, as the claim states it: shutdown(), called in any state, sets DATACOLLECT and
\* then SHUTDOWN: every event handler receives exactly one DATACOLLECT event and
\* then exactly one SHUTDOWN event, and the state is SHUTDOWN when the call returns
C19_ShutdownPublishesBothStates ==
    \A t \in Threads :
        (pc[t] = "ret" /\ op[t].name = "shutdown")
            => LET IsEvent(e) == e.what = "event"
                   es == world.sinks["event"]
               IN /\ state = SHUTDOWN_STATE
                  /\ SelectSeq(log[t], IsEvent)
                        = [k \in 1..Len(es) |-> Entry("event", es[k], DATACOLLECT_STATE)]
                            \o [k \in 1..Len(es) |-> Entry("event", es[k], SHUTDOWN_STATE)]

\* C19, as the code has it: shutdown() called in a state other than DATACOLLECT
\* publishes one DATACOLLECT event and then one SHUTDOWN event to every event
\* handler; called in DATACOLLECT it publishes the SHUTDOWN event only, and neither
\* stores the state nor runs a hook for DATACOLLECT; the state is SHUTDOWN when the
\* call returns in both cases
C19_ShutdownPublishesStatesEntered ==
    \A t \in Threads :
        (pc[t] = "ret" /\ op[t].name = "shutdown")
            => LET IsEvent(e) == e.what = "event"
                   es == world.sinks["event"]
                   To(s) == [k \in 1..Len(es) |-> Entry("event", es[k], s)]
               IN /\ state = SHUTDOWN_STATE
                  /\ loc[t].s0 # DATACOLLECT_STATE
                        => SelectSeq(log[t], IsEvent)
                              = To(DATACOLLECT_STATE) \o To(SHUTDOWN_STATE)
                  /\ loc[t].s0 = DATACOLLECT_STATE
                        => /\ SelectSeq(log[t], IsEvent) = To(SHUTDOWN_STATE)
                           /\ \A i \in 1..Len(log[t]) :
                                 log[t][i].arg = DATACOLLECT_STATE
                                     => log[t][i].what \notin {"state", "file", "event"}

\* shutdown() has returned in a session that was in SHUTDOWN already: its event
\* handlers have seen DATACOLLECT and SHUTDOWN again
C19_Witness ==
    \E t \in Threads :
        /\ pc[t] = "ret" /\ op[t].name = "shutdown"
        /\ loc[t].s0 = SHUTDOWN_STATE
        /\ state = SHUTDOWN_STATE
        /\ \E i, j \in 1..Len(log[t]) :
              /\ i < j
              /\ log[t][i] = Entry("event", "e2", DATACOLLECT_STATE)
              /\ log[t][j] = Entry("event", "e1", SHUTDOWN_STATE)

\* C20: when shutdown() returns the node registry is empty and every shutdown
\* handler has been called exactly once, in registration order; the handlers are
\* called in a session whose registry is empty already and, unless preservedir is
\* set, after the session directory has been removed
C20_ShutdownHandlersRunLast ==
    /\ \A t \in Threads : pc[t] = "sd_finish" => nodes = <<>>
    /\ \A t \in Threads :
          (pc[t] = "ret" /\ op[t].name = "shutdown")
              => LET lg == log[t]
                     IsHandler(e) == e.what = "shutdown_handler"
                     hs == {i \in 1..Len(lg) : lg[i].what = "shutdown_handler"}
                     rm == {i \in 1..Len(lg) : lg[i].what = "rmtree"}
                 IN /\ nodes = <<>>
                    /\ SelectSeq(lg, IsHandler)
                          = [k \in 1..Len(world.handlers) |->
                                Entry("shutdown_handler", world.handlers[k], 0)]
                    /\ Cardinality(rm) = (IF world.preserve THEN 0 ELSE 1)
                    /\ \A i \in rm, j \in hs : i < j
                    /\ \A i \in 1..Len(lg), j \in hs :
                          lg[i].what \in {"state", "event", "script", "callback"} => i < j

\* shutdown() has returned in a session that instantiate() had brought to RUNTIME
\* with a node, and whose directory is not preserved: the node has been shut down
\* and both handlers have run
C20_Witness ==
    \E t \in Threads :
        /\ pc[t] = "ret" /\ op[t].name = "shutdown"
        /\ loc[t].s0 = RUNTIME_STATE /\ running
        /\ ~ world.preserve
        /\ shutLog[t] # <<>>
        /\ nodes = <<>>
        /\ Len(log[t]) >= 2
        /\ log[t][Len(log[t])] = Entry("shutdown_handler", "h2", 0)

\* C21: delete_node(id) for a registered id takes the node out of the registry,
\* calls the node's shutdown once and then runs check_shutdown, which sets the
\* state to SHUTDOWN exactly when get_node_count() is zero and leaves it alone
\* otherwise; delete_node(id) for an id that is not registered returns False and
\* changes neither the registry nor the state
C21_DeleteNodeChecksShutdown ==
    /\ [](\A t \in Threads :
            (op[t].name = "delete_node" /\ pc[t] \in {"dn_check", "ret"}
                                        /\ loc[t].res = "deleted")
                => /\ op[t].a \notin DOMAIN nodes
                   /\ \E o \in DOMAIN shutLog[t] :
                         o[1] = op[t].a /\ shutLog[t] = [p \in {o} |-> 1] /\ objs[o].shut = 1)
    /\ [](\A t \in Threads :
            (op[t].name = "delete_node" /\ pc[t] = "ret")
                => /\ loc[t].res \in {"deleted", "absent"}
                   /\ loc[t].res = "deleted"
                         => state = (IF NodeCount(nodes, objs) = 0 THEN SHUTDOWN_STATE
                                     ELSE loc[t].s0)
                   /\ loc[t].res = "absent"
                         => state = loc[t].s0 /\ shutLog[t] = <<>> /\ log[t] = <<>>)
    /\ [][\A t \in Threads :
            (op'[t].name = "delete_node" /\ pc'[t] # "idle")
                => /\ loc'[t].res = "absent" => nodes' = nodes /\ state' = state
                   /\ (pc[t] = "idle") => (nodes' = nodes /\ state' = state)
                   /\ (pc[t] = "dn_pop" /\ op[t].a \in DOMAIN nodes)
                         => (nodes' = Without(nodes, op[t].a) /\ loc'[t].res = "deleted")
                   /\ (pc[t] = "dn_pop" /\ op[t].a \notin DOMAIN nodes)
                         => (pc'[t] = "ret" /\ loc'[t].res = "absent")]_vars

\* delete_node(id) has returned after it deleted the last node that counts, in a
\* session that was in RUNTIME and still holds its control net: the session is in
\* SHUTDOWN
C21_Witness ==
    \E t \in Threads :
        /\ pc[t] = "ret" /\ op[t].name = "delete_node" /\ loc[t].res = "deleted"
        /\ loc[t].s0 = RUNTIME_STATE
        /\ state = SHUTDOWN_STATE
        /\ CTRL_NET_ID \in DOMAIN nodes

\* C22, as the claim states it: when data_collect() has returned no control net is
\* left: for no index 0..3 does the registry hold a control net with the id
\* CTRL_NET_ID + index, whether its prefix is configured or it was made on demand
\* (conf_required = False) with no prefix configured
C22_DataCollectRemovesControlNets ==
    \A t \in Threads :
        (pc[t] = "ret" /\ op[t].name = "data_collect")
            => \A i \in CtrlIndexes :
                  (CTRL_NET_ID + i) \in DOMAIN nodes
                      => objs[nodes[CTRL_NET_ID + i]].cls # "CtrlNet"

\* C23: add_remove_control_net(index, remove = False, conf_required) called when
\* the registry holds a node with the id CTRL_NET_ID + index returns that node and
\* constructs nothing, so two calls with no removal between them return the same
\* control net; a call that builds the net registers it under that id and changes
\* no other entry; with no prefix configured for the index and conf_required set
\* it returns None and creates nothing
C23_ControlNetIsIdempotent ==
    /\ [](\A t \in Threads :
            (pc[t] = "ret" /\ op[t].name = "add_remove_control_net" /\ ~ op[t].flag)
                => IF op[t].a \notin prefixes /\ loc[t].cr
                   THEN loc[t].net1 = None /\ loc[t].new = None
                   ELSE /\ loc[t].res # "duplicate"
                        /\ (CTRL_NET_ID + op[t].a) \in DOMAIN nodes
                        /\ loc[t].net1 = nodes[CTRL_NET_ID + op[t].a])
    /\ [][\A t \in Threads :
            (op'[t].name = "add_remove_control_net" /\ ~ op'[t].flag)
                => LET id == CTRL_NET_ID + op'[t].a IN
                   /\ \A k \in DOMAIN nodes : k \in DOMAIN nodes' /\ nodes'[k] = nodes[k]
                   /\ DOMAIN nodes' \subseteq DOMAIN nodes \cup {id}
                   /\ (pc[t] = "arcn" /\ id \in DOMAIN nodes)
                         => /\ objs' = objs
                            /\ pc'[t] = "ret"
                   /\ (pc[t] = "arcn" /\ op[t].a \notin prefixes /\ loc[t].cr)
                         => nodes' = nodes /\ objs' = objs]_vars

\* add_remove_control_net(0, remove = False) has returned the control net that an
\* earlier call had built: this call constructed no node
C23_Witness ==
    \E t \in Threads :
        /\ pc[t] = "ret" /\ op[t].name = "add_remove_control_net" /\ ~ op[t].flag
        /\ loc[t].new = None
        /\ loc[t].net1 # None
        /\ loc[t].net1 = nodes[CTRL_NET_ID + op[t].a]
        /\ objs[loc[t].net1].cls = "CtrlNet"

\* C24, as the claim states it: an add_node() that generates the id of its node
\* never fails with the duplicate-id error, also when another thread adds nodes
\* at the same time: the generated id is the id of no registered node at the moment
\* the node is inserted
C24_GeneratedIdNeverDuplicate ==
    \A t \in Threads :
        (op[t].name = "add_node" /\ op[t].a = 0)
            => /\ loc[t].res # "duplicate"
               /\ pc[t] = "cn_insert" => loc[t].new[1] \notin DOMAIN nodes

\* C25: an add_link between two hosts with no network between them registers one
\* new PEER_TO_PEER network, started exactly when the state is above DEFINITION,
\* and attaches one interface of each host to it; no other step of add_link
\* changes the registry. A delete_link on two hosts that finds their interfaces
\* detaches both and removes both interface entries of the hosts, and the network
\* they were attached to leaves the registry, shut down, when no interface is
\* attached to it any more, as is the case for the network that add_link made
C25_PtpNetComesAndGoes ==
    /\ [](\A t \in Threads :
            (/\ pc[t] = "ret" /\ op[t].name = "add_link" /\ op[t].type = "WIRED"
             /\ loc[t].n1 # None /\ loc[t].n2 # None /\ loc[t].res = "ok")
                => LET p == loc[t].net1 IN
                   /\ p # None /\ p = loc[t].new
                   /\ objs[p].cls = "PtpNet"
                   /\ p[1] \in DOMAIN nodes /\ nodes[p[1]] = p
                   /\ [node |-> loc[t].n1, idx |-> op[t].i1, net |-> p] \in ifs
                   /\ [node |-> loc[t].n2, idx |-> op[t].i2, net |-> p] \in ifs
                   /\ {f.node : f \in {g \in ifs : g.net = p}} = {loc[t].n1, loc[t].n2}
                   /\ loc[t].start <=> state > DEFINITION_STATE)
    /\ [](\A t \in Threads :
            (/\ pc[t] = "ret" /\ op[t].name = "delete_link" /\ op[t].type = "WIRED"
             /\ loc[t].n1 # None /\ loc[t].n2 # None /\ loc[t].res = "ok"
             /\ loc[t].net1 # None)
                => LET p == loc[t].net1 IN
                   /\ NetIf(loc[t].n1, loc[t].x1) = {}
                   /\ NetIf(loc[t].n2, loc[t].x2) = {}
                   /\ (objs[p].cls = "PtpNet" /\ NumNetIf(ifs, p) = 0)
                         => /\ \A k \in DOMAIN nodes : nodes[k] # p
                            /\ objs[p].shut = 1
                            /\ p \in DOMAIN shutLog[t])
    /\ [][\A t \in Threads :
            (op'[t].name = "add_link" /\ nodes' # nodes)
                => /\ pc[t] = "cn_insert"
                   /\ objs[loc[t].new].cls = "PtpNet"
                   /\ loc[t].new[1] \notin DOMAIN nodes
                   /\ nodes' = With(nodes, loc[t].new[1], loc[t].new)]_vars

\* delete_link(a, b, 0, 0) has returned after it detached the two hosts from the
\* PEER_TO_PEER network that an add_link(a, b) had made: the network is shut down
\* and out of the registry, and the hosts have no interface left
C25_Witness ==
    \E t \in Threads :
        /\ pc[t] = "ret" /\ op[t].name = "delete_link" /\ op[t].type = "WIRED"
        /\ loc[t].res = "ok"
        /\ loc[t].n1 # None /\ loc[t].n2 # None /\ loc[t].n1 # loc[t].n2
        /\ loc[t].net1 # None
        /\ objs[loc[t].net1].cls = "PtpNet"
        /\ objs[loc[t].net1].shut = 1
        /\ \A k \in DOMAIN nodes : nodes[k] # loc[t].net1
        /\ \A f \in ifs : f.node \notin {loc[t].n1, loc[t].n2}

\* C26, as the claim states it: an add_link of type WIRELESS between two registered
\* nodes raises whenever the two have no wireless network in common, also when
\* they have other networks in common; when it returns, link() has been called on
\* every wireless network the two have in common
C26_WirelessLinkNeedsWirelessNet ==
    \A t \in Threads :
        (/\ pc[t] = "ret" /\ op[t].name = "add_link" /\ op[t].type = "WIRELESS"
         /\ op[t].a # op[t].b /\ loc[t].res # "unknown_node")
            => /\ WirelessLinks(loc[t]) = {} => loc[t].res # "ok"
               /\ loc[t].res = "ok" => loc[t].linked = WirelessLinks(loc[t])

\* C27, as the claim states it: an update_link between two registered nodes whose
\* options carry the link type WIRELESS, the value that sends add_link into its
\* wireless branch, raises the cannot-update-wireless error, configures no
\* interface and holds no node lock when it has returned
C27_UpdateWirelessRefused ==
    \A t \in Threads :
        (/\ pc[t] = "ret" /\ op[t].name = "update_link" /\ op[t].type = "WIRELESS"
         /\ loc[t].res # "unknown_node")
            => /\ loc[t].res = "cannot_update_wireless"
               /\ loc[t].configured = {}
               /\ \A o \in DOMAIN objs : objs[o].owner # t

\* C28, as the claim states it: an update_link of a wired link between two
\* registered nodes that finds no interface or network between them raises: it
\* never returns without error and without having configured an interface
C28_UpdateLinkConfiguresOrRaises ==
    \A t \in Threads :
        (/\ pc[t] = "ret" /\ op[t].name = "update_link" /\ op[t].type = "WIRED"
         /\ op[t].a # op[t].b)
            => (loc[t].res = "ok" => loc[t].configured # {})

\* C29: for every two registered ids and every tunnel between them, _link_nodes
\* returns slots in which no node slot holds a network and every input stands in
\* one slot at most: a network moves to net_one when net_one is free and to net_two
\* when it is not; a GreTapBridge tunnel stands in net_one, and the node slot of
\* the remote end of a tunnel is empty
C29_LinkNodesSlots ==
    \A t \in Threads :
        (pc[t] = "ret" /\ op[t].name = "link_nodes")
            => LET l == loc[t]
                   o1 == nodes[op[t].a]
                   o2 == nodes[op[t].b]
                   tunnelled == op[t].cls # "none"
                   tap == op[t].cls = "GreTapBridge"
                   kept1 == ~ (tunnelled /\ op[t].i1 = op[t].a)
                   kept2 == ~ (tunnelled /\ op[t].i1 = op[t].b)
                   filled == {s \in {"n1", "n2", "net1", "net2"} : l[s] # None}
                   Slots(o) == {s \in filled : l[s] = o}
                   Count(b) == IF b THEN 1 ELSE 0
               IN /\ l.n1 # None => (l.n1 = o1 /\ IsHost(o1))
                  /\ l.n2 # None => (l.n2 = o2 /\ IsHost(o2))
                  /\ Cardinality(filled) = Count(kept1) + Count(kept2) + Count(tap)
                  /\ op[t].a # op[t].b
                        => /\ Cardinality(Slots(o1)) = Count(kept1)
                           /\ Cardinality(Slots(o2)) = Count(kept2)
                  /\ (kept1 /\ IsNet(o1))
                        => IF tap THEN l.net2 = o1 ELSE l.net1 = o1
                  /\ (kept2 /\ IsNet(o2))
                        => IF tap \/ (kept1 /\ IsNet(o1)) THEN l.net2 = o2 ELSE l.net1 = o2
                  /\ tap => l.net1 = TunnelRef
                  /\ (tunnelled /\ op[t].i1 = op[t].a) => l.n1 = None
                  /\ (tunnelled /\ op[t].i1 = op[t].b) => l.n2 = None

\* _link_nodes has resolved a host and a network joined by a GreTapBridge whose
\* remote end is the host: the tunnel stands in net_one and the network in net_two
C29_Witness ==
    \E t \in Threads :
        /\ pc[t] = "ret" /\ op[t].name = "link_nodes"
        /\ op[t].cls = "GreTapBridge" /\ op[t].i1 = op[t].a
        /\ IsHost(nodes[op[t].a]) /\ IsNet(nodes[op[t].b])
        /\ loc[t].n1 = None /\ loc[t].n2 = None
        /\ loc[t].net1 = TunnelRef
        /\ loc[t].net2 = nodes[op[t].b]

\* C30: add_link, update_link and delete_link called with an id that the registry
\* does not hold raise the unknown-node error at once: the call takes no node
\* lock and changes neither the registry, nor an interface of a node, nor a link
\* between networks, nor the state; called with two registered ids they do not
\* raise that error
C30_UnknownNodeRaisedFirst ==
    /\ [](\A t \in Threads :
            (/\ pc[t] = "ret" /\ op[t].name \in {"add_link", "update_link", "delete_link"}
             /\ loc[t].res = "unknown_node")
                => /\ \A o \in DOMAIN objs : objs[o].owner # t
                   /\ loc[t].n1 = None /\ loc[t].n2 = None
                   /\ state = loc[t].s0)
    /\ [][\A t \in Threads :
            (/\ pc[t] = "idle" /\ pc'[t] # "idle"
             /\ op'[t].name \in {"add_link", "update_link", "delete_link"})
                => IF op'[t].a \in DOMAIN nodes /\ op'[t].b \in DOMAIN nodes
                   THEN loc'[t].res # "unknown_node" /\ pc'[t] = "lk_lock1"
                   ELSE /\ pc'[t] = "ret"
                        /\ loc'[t].res = "unknown_node"
                        /\ UNCHANGED <<state, nodes, objs, ifs, netlinks>>]_vars
    /\ [][\A t \in Threads :
            (pc[t] # "idle" /\ op[t].name \in {"add_link", "update_link", "delete_link"}
                            /\ loc[t].res = "unknown_node")
                => (pc[t] = "ret" /\ UNCHANGED <<state, nodes, ifs, netlinks>>)]_vars

\* update_link(a, b) has raised the unknown-node error for an id b that is not
\* registered, in a session that holds node a and an interface
C30_Witness ==
    \E t \in Threads :
        /\ pc[t] = "ret" /\ op[t].name = "update_link" /\ loc[t].res = "unknown_node"
        /\ op[t].a \in DOMAIN nodes
        /\ op[t].b \notin DOMAIN nodes
        /\ \E f \in ifs : f.node = nodes[op[t].a]

\* C31: add_state_hook(S, h) of a callback the state S does not have yet calls
\* h exactly once before it returns when the session is in the state S, and
\* does not call it in another state; whatever the state, h is one of the
\* callbacks of S when the call is over
C31_AddStateHookFiresInItsState ==
    \A t \in Threads :
        (pc[t] = "ret" /\ op[t].name = "add_state_hook") =>
            LET IsCall(e) == e.what = "callback" /\ e.who = op[t].cls
                calls == Len(SelectSeq(log[t], IsCall))
            IN /\ \E i \in 1..Len(stateHooks[op[t].a]) : stateHooks[op[t].a][i] = op[t].cls
               /\ loc[t].res # "duplicate" =>
                      calls = (IF loc[t].s0 = op[t].a THEN 1 ELSE 0)

\* add_state_hook for the state the session is in has called the new callback
C31_Witness ==
    \E t \in Threads :
        /\ pc[t] = "ret" /\ op[t].name = "add_state_hook"
        /\ loc[t].res = "ok" /\ loc[t].s0 = op[t].a
        /\ log[t] = <<Entry("callback", op[t].cls, 0)>>

\* C32: add_state_hook(S, h) for a callback h the state S has already raises an
\* error, does not call h and leaves the callbacks of every state as they are;
\* so, whatever add_state_hook and del_state_hook calls were made, no state has
\* a callback twice
C32_DuplicateStateHookRefused ==
    /\ [](\A s \in States : \A i, j \in 1..Len(stateHooks[s]) :
              stateHooks[s][i] = stateHooks[s][j] => i = j)
    /\ [][\A t \in Threads :
              (/\ pc[t] = "idle" /\ op'[t].name = "add_state_hook"
               /\ \E i \in 1..Len(stateHooks[op'[t].a]) : stateHooks[op'[t].a][i] = op'[t].cls)
                  => /\ loc'[t].res = "duplicate"
                     /\ log'[t] = <<>>
                     /\ stateHooks' = stateHooks]_vars

\* a callback was added, deleted and added again, and adding it once more is
\* refused
C32_Witness ==
    \E t \in Threads :
        /\ pc[t] = "ret" /\ op[t].name = "add_state_hook" /\ loc[t].res = "duplicate"
        /\ stateHooks[op[t].a] = <<"hook_raises", op[t].cls>>

\* C33: add_event(t) in the runtime state, r > 0 after it was entered, posts
\* nothing and raises nothing for t <= r, and posts the event with the delay
\* t - r for t > r; in another state it posts the event with the delay t
C33_AddEventDelay ==
    \A t \in Threads :
        (pc[t] = "ret" /\ op[t].name = "add_event") =>
            LET et == op[t].a
                r == op[t].b
                posted == SelectSeq(log[t], LAMBDA e : e.what = "add_event")
            IN /\ loc[t].res = "ok"
               /\ (loc[t].s0 = RUNTIME_STATE /\ r > 0 /\ et <= r) => log[t] = <<>>
               /\ (loc[t].s0 = RUNTIME_STATE /\ r > 0 /\ et > r)
                      => posted = <<Entry("add_event", "run_event", et - r)>>
               /\ loc[t].s0 # RUNTIME_STATE
                      => posted = <<Entry("add_event", "run_event", et)>>

\* an event later than the run time was added in the runtime state
C33_Witness ==
    \E t \in Threads :
        /\ pc[t] = "ret" /\ op[t].name = "add_event"
        /\ loc[t].s0 = RUNTIME_STATE /\ op[t].b > 0 /\ op[t].a > op[t].b
        /\ log[t] = <<Entry("add_event", "run_event", op[t].a - op[t].b)>>

\* C34: get_node_count returns the number of registered nodes that are neither
\* a PEER_TO_PEER net, nor a CONTROL_NET, nor a TAP_BRIDGE other than a tunnel
\* node; tunnel nodes and the nodes of every other class are counted
C34_NodeCountLeavesOut ==
    \A t \in Threads :
        (pc[t] = "ret" /\ op[t].name = "get_node_count") =>
            LET Class(k) == objs[nodes[k]].cls
                left == {k \in DOMAIN nodes : Class(k) \in {"PtpNet", "CtrlNet", "GreTapBridge"}}
            IN /\ loc[t].n = Cardinality(DOMAIN nodes) - Cardinality(left)
               /\ loc[t].n >= Cardinality({k \in DOMAIN nodes : Class(k) = "TunnelNode"})

\* the nodes of a registry with a tunnel node, a TAP_BRIDGE and a host were
\* counted
C34_Witness ==
    \E t \in Threads :
        /\ pc[t] = "ret" /\ op[t].name = "get_node_count" /\ loc[t].n = 2
        /\ {objs[nodes[k]].cls : k \in DOMAIN nodes} = {"TunnelNode", "GreTapBridge", "CoreNode"}

\* C35, as the claim states it: add_link(A, B) after delete_link(A, B) has
\* configured the interfaces of both nodes with the link options, whatever the
\* options are
C35_RoundTripConfiguresBoth ==
    \A t \in Threads :
        (/\ pc[t] = "ret" /\ op[t].name = "add_link" /\ op[t].type = "WIRED"
         /\ loc[t].n1 # None /\ loc[t].n2 # None /\ loc[t].res = "ok")
            => {<<loc[t].n1, op[t].i1>>, <<loc[t].n2, op[t].i2>>} \subseteq loc[t].configured

\* C35, amended: add_link(A, B) of two nodes that are not linked (after
\* delete_link(A, B), for one) creates an interface on each and configures the
\* interface of A with the link options; it configures the interface of B with
\* them when the options are not unidirectional, and leaves it as it was
\* created when they are
C35_RoundTripConfiguresOneWay ==
    \A t \in Threads :
        (/\ pc[t] = "ret" /\ op[t].name = "add_link" /\ op[t].type = "WIRED"
         /\ loc[t].n1 # None /\ loc[t].n2 # None /\ loc[t].res = "ok")
            => /\ [node |-> loc[t].n1, idx |-> op[t].i1, net |-> loc[t].net1] \in ifs
               /\ [node |-> loc[t].n2, idx |-> op[t].i2, net |-> loc[t].net1] \in ifs
               /\ <<loc[t].n1, op[t].i1>> \in loc[t].configured
               /\ <<loc[t].n2, op[t].i2>> \in loc[t].configured <=> ~ op[t].flag

\* one thread has deleted the link of the two nodes, and then the other has
\* added a unidirectional link between them
C35_Witness ==
    \E t \in Threads, u \in Threads :
        /\ pc[t] = "ret" /\ op[t].name = "add_link" /\ loc[t].res = "ok" /\ op[t].flag
        /\ pc[u] = "done" /\ op[u].name = "delete_link" /\ loc[u].res = "ok"
        /\ {op[u].a, op[u].b} = {1, 2} /\ op[t].a = op[u].a /\ op[t].b = op[u].b
        /\ loc[t].configured = {<<loc[t].n1, 0>>}

\* C36: the line a set_state call writes to the state file names one state: its
\* number and its name are those of the same state
C36_StateFileNamesOneState ==
    \A t \in Threads :
        op[t].name = "set_state" =>
            \A i \in 1..Len(log[t]) :
                log[t][i].what = "file" => log[t][i].who = StateName(log[t][i].arg)

\* C37: two link operations on the same two nodes never wait for each other:
\* no thread waits for the lock of its node_two, held by a thread that waits for
\* the lock of its own node_two, held by the first
C37_LinkLocksNeverDeadlock ==
    \A t \in Threads, u \in Threads :
        ~ /\ t # u
          /\ pc[t] = "lk_lock2" /\ pc[u] = "lk_lock2"
          /\ loc[t].n2 # None /\ loc[u].n2 # None
          /\ objs[loc[t].n2].owner = u
          /\ objs[loc[u].n2].owner = t

\* C38: no worker of boot_nodes needs the registry lock boot_nodes holds while
\* it waits for its workers: a thread that is about to boot the nodes can go on
C38_BootWorkersNeedNoRegistryLock ==
    \A t \in Threads : pc[t] = "in_boot" => ~ BootNeedsLock

\* C39: of two threads that have called delete_node(k) for the same registered
\* id k, exactly one has popped the node and returns True, and shutdown() of the
\* node was called once; the step that pops the node under the registry lock
\* shuts nothing down, and the step that shuts the node down, after the lock is
\* released, leaves the registry alone
C39_OneDeleteNodeWins ==
    /\ [](\A t \in Threads, u \in Threads :
            (/\ t # u
             /\ op[t].name = "delete_node" /\ op[u].name = "delete_node"
             /\ op[t].a = op[u].a
             /\ pc[t] \in {"ret", "done"} /\ pc[u] \in {"ret", "done"}
             /\ <<op[t].a, 0>> \in DOMAIN objs)
                => /\ {loc[t].res, loc[u].res} = {"deleted", "absent"}
                   /\ objs[<<op[t].a, 0>>].shut = 1
                   /\ op[t].a \notin DOMAIN nodes)
    /\ [][\A t \in Threads :
              op[t].name = "delete_node"
                  => /\ (pc[t] = "dn_pop" /\ pc'[t] # "dn_pop")
                            => (objs' = objs /\ shutLog' = shutLog)
                     /\ (pc[t] = "dn_shutdown" /\ pc'[t] # "dn_shutdown")
                            => (nodes' = nodes /\ pc'[t] = "dn_check")]_vars

\* two threads have called delete_node for the same registered id, and the one
\* that lost has returned while the other has yet to shut the node down
C39_Witness ==
    \E t \in Threads, u \in Threads :
        /\ op[t].name = "delete_node" /\ op[u].name = "delete_node" /\ op[t].a = op[u].a
        /\ pc[t] = "dn_shutdown" /\ loc[t].res = "deleted"
        /\ pc[u] = "done" /\ loc[u].res = "absent"
        /\ objs[<<op[t].a, 0>>].shut = 0

\* C40: add_link and update_link between two networks leave the up and down
\* parameters of the connecting pseudo-interface as they were: when the call is
\* over, however it ends, swapparams has been called an even number of times
C40_SwapParamsEven ==
    \A t \in Threads :
        (/\ pc[t] = "ret" /\ op[t].name \in {"add_link", "update_link"}
         /\ loc[t].n1 = None /\ loc[t].n2 = None
         /\ loc[t].net1 # None /\ loc[t].net2 # None /\ loc[t].net1 # loc[t].net2)
            => loc[t].swaps % 2 = 0

====
